---- MODULE Spec2Model ----
(***************************************************************************)
(* Model of the AI tagging pipeline of the card manager:                  *)
(*   - src/src/app/api/ai-tag/route.ts : the tag enrichment (ensureMinTags,*)
(*     heuristic) and the POST handler with its model/path loop;          *)
(*   - src/src/app/api/aiTag.ts        : the client-side gate aiTag.      *)
(*                                                                         *)
(* Text.  A text (title, note, base) is a sequence of words separated by  *)
(* single spaces.  The Japanese words and tags of the source are written  *)
(* in Hepburn romaji, because the module is ASCII: FIXED below lists the  *)
(* 27 tags of route.ts line 18-19 in the source's order (okane, kounyuu,  *)
(* akaunto, tasuku, sabusuku, ...), and the other tables follow the same  *)
(* transliteration.  Tags the source writes in Latin letters (Google,     *)
(* Amazon, VOD, ...) are kept as they are.                                 *)
(***************************************************************************)
EXTENDS Integers, Sequences, FiniteSets, TLC

VARIABLES
    enSeed,     \* ensureMinTags: the seed argument
    enCtx,      \* ensureMinTags: the ctx argument [base, url]
    enOut,      \* ensureMinTags: its outcome, or NotCalled before the call
    reLast,     \* the lastIndex of each regular expression of the tables
    enLog,      \* the calls of ensureMinTags made so far: [seed, ctx, out]
    gDraft,     \* aiTag: the draft argument
    gOpts,      \* aiTag: the options [allowFallback, trace]
    gNet,       \* aiTag: what fetch(endpoint) and res.json() give this call
    gOut,       \* aiTag: its outcome, or GateNotCalled before the call
    gFetched,   \* aiTag: whether the call reached fetch(endpoint)
    req,        \* POST: the request [body, trace, force]
    env,        \* POST: process.env [GEMINI_API_KEY, GEMINI_MODEL]
    pc,         \* POST: where the handler is
    models,     \* POST: the candidate models
    idx,        \* POST: the position of the loop in models
    inflight,   \* POST: the remote calls awaited, as <<model, path>>
    attempts,   \* POST: the remote calls made so far, in order, as <<model, path>>
    lastErr,    \* POST: lastErr
    resp,       \* POST: what the handler gave its caller, or NoResponse
    store,      \* page: the documents of the collection "items", by id 1, 2, ...
    errorMsg,   \* page: the state errorMsg, the error the page shows, or Null
    pending,    \* page: the operations that await requestAiTags, oldest first
    writes,     \* page: the last two writes to the store, as [kind, id, concurrent]
    answers,    \* POST: the answers of the remote calls this call has awaited
    other       \* a second call of POST in flight: its request and local state

enVars == <<enSeed, enCtx, enOut, reLast, enLog>>
gateVars == <<gDraft, gOpts, gNet, gOut, gFetched>>
postVars == <<req, env, pc, models, idx, inflight, attempts, lastErr, resp>>
pageVars == <<store, errorMsg, pending, writes>>
pairVars == <<answers, other>>
vars == <<enSeed, enCtx, enOut, reLast, enLog, gDraft, gOpts, gNet, gOut, gFetched,
          req, env, pc, models, idx, inflight, attempts, lastErr, resp,
          store, errorMsg, pending, writes, answers, other>>

(***************************************************************************)
(* Ordered sets: a JavaScript Set keeps insertion order and ignores the    *)
(* insertion of a member, so it is a sequence without repetition.          *)
(***************************************************************************)
RangeOf(s) == {s[i] : i \in 1..Len(s)}

\* An insertion that moves a member to the end, as delete followed by add does.
SetAddMoveToEnd(set, t) == Append(SelectSeq(set, LAMBDA u : u # t), t)

SetAdd(set, t) == IF t \in RangeOf(set) THEN set ELSE Append(set, t)

RECURSIVE SetAddAll(_, _)
SetAddAll(set, ts) ==
    IF ts = <<>> THEN set ELSE SetAddAll(SetAdd(set, Head(ts)), Tail(ts))

Slice(s, n) == IF Len(s) <= n THEN s ELSE SubSeq(s, 1, n)

RECURSIVE Flatten(_)
Flatten(ss) == IF ss = <<>> THEN <<>> ELSE Head(ss) \o Flatten(Tail(ss))

(***************************************************************************)
(* The lookup tables of route.ts.                                          *)
(***************************************************************************)
FIXED ==
    << "okane", "kounyuu", "akaunto", "tasuku", "sabusuku", "renraku",
       "gakkou", "shigoto", "juuyou", "shikyuu", "kaiyaku", "shiharai",
       "seikyuu", "koushin", "kijitsu", "mente", "settei", "shougai",
       "renkei", "douga", "ongaku", "shashin", "gakuwari", "ryoushuusho",
       "ryokou", "chimei", "nihon" >>

\* Object.entries(BRAND_TAGS): the entries in insertion order.  A key is the
\* sequence of its space-separated words.
BRAND_TAGS ==
    << [k |-> <<"youtube">>,            tags |-> <<"sabusuku", "douga", "Google">>],
       [k |-> <<"youtube", "premium">>, tags |-> <<"sabusuku", "douga", "Google">>],
       [k |-> <<"netflix">>,            tags |-> <<"sabusuku", "douga">>],
       [k |-> <<"spotify">>,            tags |-> <<"sabusuku", "ongaku">>],
       [k |-> <<"prime", "video">>,     tags |-> <<"sabusuku", "douga", "Amazon">>],
       [k |-> <<"apple", "music">>,     tags |-> <<"sabusuku", "ongaku", "Apple">>],
       [k |-> <<"icloud">>,             tags |-> <<"sabusuku", "Apple">>],
       [k |-> <<"adobe">>,              tags |-> <<"sabusuku", "Adobe">>],
       [k |-> <<"microsoft">>,          tags |-> <<"sabusuku", "Microsoft">>],
       [k |-> <<"github">>,             tags |-> <<"kaihatsu", "koodo", "akaunto">>],
       [k |-> <<"google">>,             tags |-> <<"Google">>] >>

\* A regular expression of the tables is an alternation of literals, tested
\* without regard to case on a lower-cased text: re is the set of its literals.
KEYWORD_TAGS ==
    << [re |-> {"seikyuu", "shihara", "shiharai", "nyuukin", "ryoukin", "furikomi",
                "hikiotoshi", "meisai", "ryoushuusho"},
        tags |-> <<"okane", "seikyuu">>],
       [re |-> {"kounyuu", "kau", "hacchuu", "chuumon", "nouhin", "mitsumori",
                "seikyuusho", "ryoushuusho"},
        tags |-> <<"kounyuu">>],
       [re |-> {"kaiyaku", "taikai", "teishi", "kyanseru", "kaijo"},
        tags |-> <<"kaiyaku">>],
       [re |-> {"koushin", "jidoukoushin", "sabusuku", "subscription"},
        tags |-> <<"sabusuku", "koushin">>],
       [re |-> {"todo", "yaru", "shimekiri", "kigen", "teishutsu", "kadai", "tasuku"},
        tags |-> <<"tasuku", "kijitsu">>],
       [re |-> {"roguin", "account", "akaunto", "password", "pasuwaado", "2fa", "otp",
                "yuuzaa"},
        tags |-> <<"akaunto", "ninshou">>],
       [re |-> {"toiawase", "renraku", "meeru", "denwa", "sapooto", "saposen"},
        tags |-> <<"renraku">>],
       [re |-> {"douga", "movie", "video", "vod"},
        tags |-> <<"douga">>],
       [re |-> {"ongaku", "music", "song", "kyoku"},
        tags |-> <<"ongaku">>] >>

GEO_TAGS ==
    << [re |-> {"toukyou", "tokyo"},
        tags |-> <<"chimei", "nihon", "ryokou", "kantou", "shutoken">>],
       [re |-> {"kyouto", "kyoto"},
        tags |-> <<"chimei", "nihon", "ryokou", "kansai">>],
       [re |-> {"oosaka", "osaka"},
        tags |-> <<"chimei", "nihon", "ryokou", "kansai">>] >>

\* The own properties of the object literal SYN_EXPAND.
SYN_EXPAND ==
    [t \in {"kaiyaku", "seikyuu", "sabusuku", "douga", "ongaku", "kounyuu",
            "akaunto", "ryokou", "chimei", "juuyou", "kijitsu"} |->
        CASE t = "kaiyaku"  -> <<"kyanseru", "taikai", "teishi">>
          [] t = "seikyuu"  -> <<"shiharai", "ryoukin", "meisai">>
          [] t = "sabusuku" -> <<"teigaku", "getsugaku", "teiki">>
          [] t = "douga"    -> <<"eizou", "VOD", "haishin">>
          [] t = "ongaku"   -> <<"myuujikku", "gakkyoku", "sutoriimingu">>
          [] t = "kounyuu"  -> <<"chuumon", "shoppingu", "shishutsu">>
          [] t = "akaunto"  -> <<"roguin", "yuuzaa", "ninshou">>
          [] t = "ryokou"   -> <<"kankou", "toraberu", "kankouchi">>
          [] t = "chimei"   -> <<"rokeeshon", "basho">>
          [] t = "juuyou"   -> <<"yuusen", "chuumoku">>
          [] t = "kijitsu"  -> <<"shimekiri", "deddorain">>]

\* SYN_EXPAND is a plain object: SYN_EXPAND[t] for a name that is no own
\* property is looked up on Object.prototype, where these names are defined
\* with values that are not arrays (functions, the prototype object).
ObjectPrototypeProps ==
    {"constructor", "toString", "toLocaleString", "valueOf", "hasOwnProperty",
     "isPrototypeOf", "propertyIsEnumerable", "__proto__"}

\* SYN_EXPAND[t]: kind "array" with the synonyms, "undefined", or "other" for an
\* inherited value that has no forEach method.
SynLookup(t) ==
    IF t \in DOMAIN SYN_EXPAND THEN [kind |-> "array", v |-> SYN_EXPAND[t]]
    ELSE IF t \in ObjectPrototypeProps THEN [kind |-> "other", v |-> <<>>]
    ELSE [kind |-> "undefined", v |-> <<>>]

(***************************************************************************)
(* Words.  The words a text of the model is made of, with what the code's  *)
(* string operations make of each.  Words written with a capital are the   *)
(* Latin-script words of the vocabulary; kaiyaku, toukyou and sabusuku     *)
(* stand for the Japanese words (two kanji, two kanji, four katakana) and  *)
(* 1200en for the four digits followed by the yen sign.                    *)
(***************************************************************************)
Words == {"Netflix", "kaiyaku", "Prime", "Video", "toukyou", "sabusuku",
          "abc", "ab", "a", "2024", "3/15", "1200en"}

\* Long words: the letter x written 2000, 2001, 8000 and 8001 times.
LongWords == {"x2000", "x2001", "x8000", "x8001"}

\* String.prototype.toLowerCase on one word.
ToLowerCase(w) ==
    CASE w = "Netflix" -> "netflix"
      [] w = "Prime"   -> "prime"
      [] w = "Video"   -> "video"
      [] OTHER         -> w

\* The length of a word in UTF-16 code units.
CharLen(w) ==
    CASE w \in {"Netflix"}                  -> 7
      [] w \in {"Prime", "Video", "1200en"} -> 5
      [] w \in {"sabusuku", "2024", "3/15"} -> 4
      [] w \in {"abc"}                      -> 3
      [] w \in {"kaiyaku", "toukyou", "ab"} -> 2
      [] w \in {"a"}                        -> 1
      [] w = "x80"                          -> 80
      [] w = "x2000"                        -> 2000
      [] w = "x2001"                        -> 2001
      [] w = "x8000"                        -> 8000
      [] w = "x8001"                        -> 8001

\* s.includes(k) for a lower-cased word s of the vocabulary and a literal k of
\* the tables: no word of the vocabulary properly contains a literal.
WordIncludes(s, k) == s = k

\* base.includes(key) / re.test(base) for a key of several words: the words of
\* the key occur in the text next to each other.
Includes(base, key) ==
    \E i \in 1..Len(base) :
        /\ i + Len(key) - 1 <= Len(base)
        /\ \A j \in 1..Len(key) : WordIncludes(base[i + j - 1], key[j])

\* The flags of the regular expression literals of KEYWORD_TAGS and GEO_TAGS,
\* and the same literals written with the flag g.
TableFlagsGlobal == {"g", "i"}
TableFlags == {"i"}

\* RegExpBuiltinExec: an expression with the flag g or y starts at its
\* lastIndex and writes it, any other starts at 0 and writes nothing.
UsesLastIndex(flags) == "g" \in flags \/ "y" \in flags

\* The words of the text, after position from, that a literal of re matches.
MatchEnds(re, base, from) ==
    {i \in (from + 1)..Len(base) : \E lit \in re : WordIncludes(base[i], lit)}

\* re.test(base) on the expression object of a table, and its lastIndex after
\* the test: the end of the leftmost match, or 0 after a failed search.
ReTest(re, base) ==
    MatchEnds(re, base, IF UsesLastIndex(TableFlags) THEN reLast[re] ELSE 0) # {}

LastIndexAfterTest(re, base) ==
    IF ~UsesLastIndex(TableFlags) THEN reLast[re]
    ELSE IF MatchEnds(re, base, reLast[re]) = {} THEN 0
    ELSE CHOOSE i \in MatchEnds(re, base, reLast[re]) :
             \A j \in MatchEnds(re, base, reLast[re]) : i <= j

\* The matches of /[katakana]{2,10}/g in one lower-cased word.
KatakanaRuns(s) == IF s = "sabusuku" THEN <<"sabusuku">> ELSE <<>>

\* The matches of /[A-Za-z0-9][A-Za-z0-9\-_.]{1,19}/g in one lower-cased word:
\* at least two characters, at most twenty; of the matches in a long word the
\* first three, which are all that is read of them.
AsciiRuns(s) ==
    CASE s \in {"netflix", "prime", "video", "abc", "ab", "2024"} -> <<s>>
      [] s = "3/15"   -> <<"15">>
      [] s = "1200en" -> <<"1200">>
      [] s \in LongWords -> <<"xxxxxxxxxxxxxxxxxxxx", "xxxxxxxxxxxxxxxxxxxx",
                               "xxxxxxxxxxxxxxxxxxxx">>
      [] OTHER        -> <<>>

\* /\d{1,2}\/\d{1,2}|\d{4}[-/nen]\d{1,2}/, /\d+en/, /\b(20\d{2}|19\d{2})\b/.
HasDate(s) == s = "3/15"
HasAmount(s) == s = "1200en"
HasYear(s) == s = "2024"

\* `${title} ${note ?? ""}`.toLowerCase(): the words of the title and of the note.
BaseOf(title, note) ==
    [i \in 1..(Len(title) + Len(note)) |->
        ToLowerCase(IF i <= Len(title) THEN title[i] ELSE note[i - Len(title)])]

\* text.trim().length: the words and the single spaces between them.
RECURSIVE SumCharLen(_)
SumCharLen(text) ==
    IF text = <<>> THEN 0 ELSE CharLen(Head(text)) + SumCharLen(Tail(text))

TrimLen(text) == IF text = <<>> THEN 0 ELSE SumCharLen(text) + Len(text) - 1

(***************************************************************************)
(* URLs.  The url field of a draft: undefined, or one of these strings.    *)
(***************************************************************************)
Undefined == "<undefined>"

Urls == {Undefined, "", "netflix.com", "http://", "https://www.Netflix.com/browse",
         "http://localhost:3000/", "mailto:me@example.com",
         "https://constructor.io/"}

\* !url
UrlFalsy(url) == url \in {Undefined, ""}

\* new URL(url) throws a TypeError for a string that is no absolute URL: one
\* without a scheme, or an http URL without a host.
UrlParses(url) == url \notin {Undefined, "", "netflix.com", "http://"}

\* new URL(url).hostname.toLowerCase()
HostOf(url) ==
    CASE url = "https://www.Netflix.com/browse" -> "www.netflix.com"
      [] url = "http://localhost:3000/"         -> "localhost"
      [] url = "mailto:me@example.com"          -> ""
      [] url = "https://constructor.io/"        -> "constructor.io"

\* host.split(".").filter(Boolean)
HostParts(host) ==
    CASE host = "www.netflix.com" -> <<"www", "netflix", "com">>
      [] host = "localhost"       -> <<"localhost">>
      [] host = ""                -> <<>>
      [] host = "constructor.io"  -> <<"constructor", "io">>

(***************************************************************************)
(* The enrichment.  into/set are ordered sets.                             *)
(***************************************************************************)
\* The tags of the entries of a table whose test the text passes, in table order.
RECURSIVE TagsOfHits(_, _, _)
TagsOfHits(table, i, hit) ==
    IF i > Len(table) THEN <<>>
    ELSE (IF hit[i] THEN table[i].tags ELSE <<>>) \o TagsOfHits(table, i + 1, hit)

\* addFromUrl without the try/catch reading of a URL: the text of an
\* unparsable URL is taken as the host.
addFromUrlTextAsHost(url, into) ==
    IF UrlFalsy(url) THEN into
    ELSE IF ~UrlParses(url) THEN SetAdd(into, url)
    ELSE SetAdd(into, HostOf(url))

addFromUrl(url, into) ==
    IF UrlFalsy(url) THEN into
    ELSE IF ~UrlParses(url) THEN into
    ELSE LET host  == HostOf(url)
             parts == HostParts(host)
             s1    == SetAdd(into, host)
             s2    == IF Len(parts) >= 2 THEN SetAdd(s1, parts[Len(parts) - 1]) ELSE s1
             \* host.includes(k): a host has no space, so only a key of one word
             \* can occur in it, inside one of its labels.
             hit   == [i \in 1..Len(BRAND_TAGS) |->
                          /\ Len(BRAND_TAGS[i].k) = 1
                          /\ \E j \in 1..Len(parts) :
                                 WordIncludes(parts[j], BRAND_TAGS[i].k[1])]
         IN  SetAddAll(s2, TagsOfHits(BRAND_TAGS, 1, hit))

addLooseKeywords(base, into) ==
    LET s1    == IF \E i \in 1..Len(base) : HasDate(base[i])
                 THEN SetAdd(into, "hizuke") ELSE into
        s2    == IF \E i \in 1..Len(base) : HasAmount(base[i])
                 THEN SetAdd(s1, "kingaku") ELSE s1
        s3    == IF \E i \in 1..Len(base) : HasYear(base[i])
                 THEN SetAdd(s2, "nen") ELSE s2
        kata  == Flatten([i \in 1..Len(base) |-> KatakanaRuns(base[i])])
        s4    == SetAddAll(s3, Slice(kata, 3))
        ascii == Flatten([i \in 1..Len(base) |-> AsciiRuns(base[i])])
    IN  SetAddAll(s4, [i \in 1..Len(Slice(ascii, 3)) |-> ToLowerCase(ascii[i])])

\* for (const t of Array.from(set)) { const exp = SYN_EXPAND[t]; exp?.forEach(...) }
\* over the snapshot snap, from position i.
RECURSIVE SynExpand(_, _, _)
SynExpand(set, snap, i) ==
    IF i > Len(snap) THEN set
    ELSE SynExpand(SetAddAll(set, SynLookup(snap[i]).v), snap, i + 1)

\* The fill loop: while (set.size < min && i < FIXED.length), i counted from 1.
RECURSIVE PadFixed(_, _, _)
PadFixed(set, i, min) ==
    IF Len(set) < min /\ i <= Len(FIXED)
    THEN PadFixed(SetAdd(set, FIXED[i]), i + 1, min)
    ELSE set

\* The outcome of a call: the value returned, or an exception thrown.
Returned(v) == [threw |-> FALSE, v |-> v, err |-> ""]
Threw(e)    == [threw |-> TRUE, v |-> <<>>, err |-> e]

\* exp?.forEach is called on a value that is not nullish and has no forEach.
SynTypeError == "TypeError: exp?.forEach is not a function"

\* Line 114: new Set(seed.filter(Boolean))
SeedSet(seed) == SetAddAll(<<>>, SelectSeq(seed, LAMBDA t : t # ""))

\* The brand scan with equality in place of includes: a brand counts only
\* when its key is the whole text.
BrandScanWholeText(base, set) ==
    SetAddAll(set, TagsOfHits(BRAND_TAGS, 1,
        [i \in 1..Len(BRAND_TAGS) |-> base = BRAND_TAGS[i].k]))

\* Lines 115-117: the brand scan of the text.
BrandScan(base, set) ==
    SetAddAll(set, TagsOfHits(BRAND_TAGS, 1,
        [i \in 1..Len(BRAND_TAGS) |-> Includes(base, BRAND_TAGS[i].k)]))

\* Lines 118-120: the keyword scan.
KeywordScan(base, set) ==
    SetAddAll(set, TagsOfHits(KEYWORD_TAGS, 1,
        [i \in 1..Len(KEYWORD_TAGS) |-> ReTest(KEYWORD_TAGS[i].re, base)]))

\* Lines 121-123: the geo scan.
GeoScan(base, set) ==
    SetAddAll(set, TagsOfHits(GEO_TAGS, 1,
        [i \in 1..Len(GEO_TAGS) |-> ReTest(GEO_TAGS[i].re, base)]))

\* Lines 125-136: the synonym pass over a snapshot of set, which throws on a
\* looked-up value without forEach, then the loose keywords, the fill with
\* FIXED and the cut to max.
SynPadSlice(set, base, min, max) ==
    IF \E i \in 1..Len(set) : SynLookup(set[i]).kind = "other"
    THEN Threw(SynTypeError)
    ELSE Returned(Slice(PadFixed(addLooseKeywords(base, SynExpand(set, set, 1)), 1, min),
                        max))

ensureMinTags(seed, ctx, min, max) ==
    SynPadSlice(
        addFromUrl(ctx.url,
            GeoScan(ctx.base, KeywordScan(ctx.base, BrandScan(ctx.base, SeedSet(seed))))),
        ctx.base, min, max)

\* The expression objects of the tables, each tested once by a call.
TableRegExps ==
    {KEYWORD_TAGS[i].re : i \in 1..Len(KEYWORD_TAGS)} \cup {GEO_TAGS[i].re : i \in 1..Len(GEO_TAGS)}

\* The expression objects as the module creates them.
FreshRegExps == [re \in TableRegExps |-> 0]

\* The expression objects after a call of ensureMinTags on the text base.
RegExpsAfter(base) == [re \in TableRegExps |-> LastIndexAfterTest(re, base)]

(***************************************************************************)
(* Specification SpecEnrich: ensureMinTags applied to every seed and       *)
(* context of a bounded set.                                               *)
(***************************************************************************)
MaxWords == 2       \* the words of a base text

NotCalled == [threw |-> FALSE, v |-> <<"<not called>">>, err |-> ""]

Texts(n) == UNION {[1..k -> Words] : k \in 0..n}

\* More than ten distinct tags, none of them a tag of the tables.
TwelveTags == <<"t01", "t02", "t03", "t04", "t05", "t06", "t07", "t08", "t09",
                "t10", "t11", "t12">>

EnSeeds ==
    { <<>>, <<"">>, <<"", "eiga", "">>, <<"eiga", "eiga", "douga", "eiga">>,
      <<"constructor">>, TwelveTags,
      <<"okane", "kounyuu", "akaunto", "tasuku", "sabusuku">> }

EnrichStart ==
    /\ enSeed \in EnSeeds
    /\ enCtx \in {[base |-> BaseOf(t, <<>>), url |-> u] : t \in Texts(MaxWords), u \in Urls}
    /\ enOut = NotCalled
    /\ reLast = FreshRegExps
    /\ enLog = <<>>

EnrichCall ==
    /\ enOut = NotCalled
    /\ enOut' = ensureMinTags(enSeed, enCtx, 6, 10)
    /\ reLast' = RegExpsAfter(enCtx.base)
    /\ UNCHANGED <<enSeed, enCtx, enLog, gateVars, postVars, pageVars, pairVars>>

EnrichIdle ==
    /\ enSeed = <<>>
    /\ enCtx = [base |-> <<>>, url |-> Undefined]
    /\ enOut = NotCalled
    /\ reLast = FreshRegExps
    /\ enLog = <<>>

(***************************************************************************)
(* Specification SpecRepeat: ensureMinTags called again and again, on any  *)
(* seed and context and in any order, on the same module instance.  The    *)
(* expressions that addLooseKeywords uses are literals inside its body, a  *)
(* new object at each call, and are no state of the module.                *)
(***************************************************************************)
MaxCalls == 3       \* the calls of ensureMinTags in a run

RepeatSeeds == {<<>>, <<"eiga", "douga">>}

RepeatCtxs ==
    {[base |-> b, url |-> u] :
        b \in {<<"kaiyaku">>, <<"netflix", "kaiyaku">>, <<"sabusuku", "toukyou">>, <<"abc">>},
        u \in {Undefined, "https://www.Netflix.com/browse"}}

EnrichAgain(seed, ctx) ==
    /\ Len(enLog) < MaxCalls
    /\ enSeed' = seed
    /\ enCtx' = ctx
    /\ enOut' = ensureMinTags(seed, ctx, 6, 10)
    /\ reLast' = RegExpsAfter(ctx.base)
    /\ enLog' = Append(enLog, [seed |-> seed, ctx |-> ctx, out |-> enOut'])
    /\ UNCHANGED <<gateVars, postVars, pageVars, pairVars>>

(***************************************************************************)
(* The client-side gate aiTag of aiTag.ts.  A JSON object is a record that *)
(* has the fields present in it.                                           *)
(***************************************************************************)
Has(o, f) == f \in DOMAIN o

\* Truthiness of an optional boolean field and of an optional string field.
TruthyFlag(o, f) == Has(o, f) /\ o[f]
TruthyString(o, f) == Has(o, f) /\ o[f] # ""

\* new Error(message): name is the message's fixed text, the other fields are
\* the values its template embeds.
GateError(name, detail) == [kind |-> "throw", name |-> name, detail |-> detail]
GateReturn(data) == [kind |-> "return", data |-> data]

\* trace && data.raw !== undefined ? ` / raw=...` : ""
RawHint(trace, data) == IF trace /\ Has(data, "raw") THEN <<"raw", data.raw>> ELSE <<>>

\* res.ok
ResOk(status) == status \in 200..299

\* Lines 126-135: the error of the fallback rule, with data.model || "unknown",
\* data.error and the raw hint.
FallbackRejected(opts, data) ==
    GateError("FallbackRejected",
              <<IF TruthyString(data, "model") THEN data.model ELSE "unknown",
                IF TruthyString(data, "error") THEN data.error ELSE "">>
              \o RawHint(opts.trace, data))

\* The rules with the fallback rule first.
GateRulesFallbackFirst(opts, data) ==
    IF ~opts.allowFallback /\ TruthyFlag(data, "fallback")
    THEN FallbackRejected(opts, data)
    ELSE IF ~Has(data, "tags") \/ Len(data.tags) = 0
    THEN GateError("EmptyTags", RawHint(opts.trace, data))
    ELSE GateReturn(data)

\* The rules with a fallback rule that does not read allowFallback.
GateRulesNoOption(opts, data) ==
    IF ~Has(data, "tags") \/ Len(data.tags) = 0
    THEN GateError("EmptyTags", RawHint(opts.trace, data))
    ELSE IF TruthyFlag(data, "fallback")
    THEN FallbackRejected(opts, data)
    ELSE GateReturn(data)

\* The rules with a return that keeps only the fields of a tag result.
GateRulesStripped(opts, data) ==
    IF ~Has(data, "tags") \/ Len(data.tags) = 0
    THEN GateError("EmptyTags", RawHint(opts.trace, data))
    ELSE IF ~opts.allowFallback /\ TruthyFlag(data, "fallback")
    THEN FallbackRejected(opts, data)
    ELSE GateReturn([f \in DOMAIN data \ {"raw", "error"} |-> data[f]])

\* Lines 118-138: the rules of the gate on the body data of an OK response.
GateRules(opts, data) ==
    IF ~Has(data, "tags") \/ Len(data.tags) = 0
    THEN GateError("EmptyTags", RawHint(opts.trace, data))
    ELSE IF ~opts.allowFallback /\ TruthyFlag(data, "fallback")
    THEN FallbackRejected(opts, data)
    ELSE GateReturn(data)

\* The guard with a limit of two characters.
GateTooShortBelowTwo(draft) == TrimLen(draft.title) + TrimLen(draft.note) < 2

\* Lines 66-69: contentLen < 3.
GateTooShort(draft) == TrimLen(draft.title) + TrimLen(draft.note) < 3

\* Lines 59-139.  net is what the network gives: fetch rejects, or a response
\* with a status and a body that is not JSON, the JSON null, or the object data.
aiTag(draft, opts, net) ==
    IF GateTooShort(draft)
    THEN GateError("InputTooShort", <<>>)
    ELSE IF net.kind = "reject" THEN GateError("FetchFailed", <<net.message>>)
    ELSE IF net.body = "notjson" THEN GateError("ResponseNotJson", <<net.status>>)
    ELSE IF ~ResOk(net.status) THEN
        IF net.body = "object" /\ TruthyString(net.data, "error")
        THEN GateError("ServerError", <<net.data.error>>)
        ELSE GateError("HttpError", <<net.status>>)
    ELSE IF net.body = "null" THEN GateError("TypeError", <<>>)
    ELSE GateRules(opts, net.data)

(***************************************************************************)
(* The POST handler of route.ts.                                           *)
(***************************************************************************)
\* { ...a, ...b }
Merge(a, b) == [f \in DOMAIN a \cup DOMAIN b |-> IF f \in DOMAIN b THEN b[f] ELSE a[f]]

EmptyObject == <<>>

\* Confidences are written in hundredths: 0.6 is 60.
HeuristicConfidence == 60
DefaultModelConfidence == 70

\* d.note.slice(0, 80); a note of more than 80 characters is cut after the last
\* word that ends within them, and a first word of more than 80 characters,
\* which is one of the long words, is cut to x80, the letter x 80 times.
RECURSIVE Slice80(_)
Slice80(note) ==
    IF TrimLen(note) <= 80 THEN note
    ELSE IF Len(note) = 1 THEN <<"x80">>
    ELSE Slice80(SubSeq(note, 1, Len(note) - 1))

\* Lines 142-146: the object heuristic returns, from the outcome of ensureMinTags.
HeuristicOf(d, final) ==
    IF final.threw THEN final
    ELSE Returned([tags       |-> final.v,
                   summary    |-> IF TrimLen(d.note) > 0 THEN Slice80(d.note) ELSE d.title,
                   confidence |-> HeuristicConfidence])

heuristic(d) ==
    HeuristicOf(d, ensureMinTags(<<>>, [base |-> BaseOf(d.title, d.note), url |-> d.url],
                                 6, 10))

\* A thrown or recorded failure: an Error with its message, a string, or null.
ErrorOf(message) == [type |-> "Error", message |-> message]
StringErr(s) == [type |-> "string", message |-> s]
NullErr == [type |-> "null", message |-> ""]

errorMessage(x) ==
    IF x.type = "Error" THEN x.message
    ELSE IF x.type = "string" THEN x.message
    ELSE "null"

\* `REST ${m} HTTP ${resp.status}`
RestHttpMessage(m, status) ==
    CASE m = "gemini-1.5-flash" /\ status = 429 -> "REST gemini-1.5-flash HTTP 429"
      [] m = "gemini-1.5-flash" /\ status = 503 -> "REST gemini-1.5-flash HTTP 503"
      [] m = "gemini-2.0-flash" /\ status = 429 -> "REST gemini-2.0-flash HTTP 429"
      [] m = "gemini-2.0-flash" /\ status = 503 -> "REST gemini-2.0-flash HTTP 503"
      [] m = "gemini-pro" /\ status = 429       -> "REST gemini-pro HTTP 429"
      [] m = "gemini-pro" /\ status = 503       -> "REST gemini-pro HTTP 503"

\* `rest:${m}`
RestModelName(m) ==
    CASE m = "gemini-1.5-flash" -> "rest:gemini-1.5-flash"
      [] m = "gemini-2.0-flash" -> "rest:gemini-2.0-flash"
      [] m = "gemini-pro"       -> "rest:gemini-pro"

\* /^AIza[0-9A-Za-z_\-]{20,}$/.test(key)
LooksLikeGoogleKey(key) == key = "AIzaSyA-1234567890_abcdefghijk"

\* The candidates without the Set: a configured default is visited twice.
CandidatesNoDedupe(envModel) ==
    SelectSeq(<<envModel, "gemini-1.5-flash", "gemini-2.0-flash">>,
              LAMBDA m : m # Undefined /\ m # "")

\* Array.from(new Set([GEMINI_MODEL, "gemini-1.5-flash", "gemini-2.0-flash"]
\*   .filter(m => typeof m === "string" && m.length > 0)))
Candidates(envModel) ==
    SetAddAll(<<>>, SelectSeq(<<envModel, "gemini-1.5-flash", "gemini-2.0-flash">>,
                              LAMBDA m : m # Undefined /\ m # ""))

\* An element of a JSON array that is not a string.
JsonNumber == "#42"

isStringArray(x) == \A i \in 1..Len(x) : x[i] # JsonNumber

\* A text is [form, obj]: form "json" is the serialisation of obj alone,
\* "wrapped" is prose around the one object obj, "two" is prose holding obj and
\* a second object after it, "garbage" holds no brace.
JsonParse(text) ==
    IF text.form = "json" THEN Returned(text.obj) ELSE Threw("SyntaxError")

\* text.match(/\{[\s\S]*\}/): from the first { to the last }; null when the
\* match is absent or is not JSON.
extractJsonObject(text) ==
    IF text.form = "wrapped" THEN [null |-> FALSE, obj |-> text.obj]
    ELSE [null |-> TRUE, obj |-> EmptyObject]

\* try { obj = JSON.parse(text) } catch { obj = extractJsonObject(text) }
ParseModelText(text) ==
    IF ~JsonParse(text).threw THEN [null |-> FALSE, obj |-> JsonParse(text).v]
    ELSE extractJsonObject(text)

\* modelFailed = aiTags.length < 1
modelFailed(aiTags) == Len(aiTags) < 1

\* parsed is [null, obj]: the value of obj after lines 279-284.
\* isStringArray(obj?.tags) ? obj.tags : []
AiTagsOf(parsed) ==
    IF ~parsed.null /\ Has(parsed.obj, "tags") /\ isStringArray(parsed.obj.tags)
    THEN parsed.obj.tags ELSE <<>>

\* typeof obj?.summary === "string" && obj.summary.trim() ? obj.summary : draft.title
SummaryOf(parsed, draft) ==
    IF ~parsed.null /\ Has(parsed.obj, "summary") /\ TrimLen(parsed.obj.summary) > 0
    THEN parsed.obj.summary ELSE draft.title

\* typeof obj?.confidence === "number" ? obj.confidence : 0.7
ConfidenceOf(parsed) ==
    IF ~parsed.null /\ Has(parsed.obj, "confidence")
    THEN parsed.obj.confidence ELSE DefaultModelConfidence

\* Lines 297-302: the JSON body of a model result, from the outcome of
\* ensureMinTags(aiTags, ...).
ModelBody(merged, parsed, draft, trace, text, modelName) ==
    IF merged.threw THEN merged
    ELSE Returned(Merge([tags |-> merged.v, summary |-> SummaryOf(parsed, draft),
                         confidence |-> ConfidenceOf(parsed), model |-> modelName,
                         fallback |-> modelFailed(AiTagsOf(parsed))],
                        IF trace THEN [raw |-> text] ELSE EmptyObject))

ModelResultOf(parsed, draft, trace, text, modelName) ==
    ModelBody(ensureMinTags(AiTagsOf(parsed),
                            [base |-> BaseOf(draft.title, draft.note), url |-> draft.url],
                            6, 10),
              parsed, draft, trace, text, modelName)

\* Lines 279-302 and 347-370: from the text of a model answer to the JSON body
\* of the response, or the exception thrown on the way.
ModelResult(draft, trace, text, modelName) ==
    ModelResultOf(ParseModelText(text), draft, trace, text, modelName)

\* NextResponse.json(body, {status}) given to the caller, or an exception that
\* leaves the handler.
Response(status, body) == [kind |-> "response", status |-> status, body |-> body]
Uncaught(e) == [kind |-> "throw", status |-> 500, body |-> [message |-> e]]
NoResponse == [kind |-> "none", status |-> 0, body |-> EmptyObject]

\* const h = heuristic(draft); return NextResponse.json({ ...h, ...more })
\* outside of any try block.
RespondWith(h, more) ==
    IF h.threw THEN Uncaught(h.err) ELSE Response(200, Merge(h.v, more))

HeuristicResponse(draft, more) == RespondWith(heuristic(draft), more)

\* The size check with limits that are not inclusive.
InputTooLargeExclusive(d) == TrimLen(d.title) >= 2000 \/ TrimLen(d.note) >= 8000

\* Line 193: titleLen > 2000 || noteLen > 8000
InputTooLarge(d) == TrimLen(d.title) > 2000 \/ TrimLen(d.note) > 8000

\* Lines 175-231: what the handler returns before the model loop, NoResponse
\* when it enters the loop: the body check, the input guard, the forced
\* heuristic and the key check.
EarlyResponse(r, e) ==
    IF ~r.body.isDraft THEN Response(400, [error |-> "invalid body"])
    ELSE IF TrimLen(r.body.title) + TrimLen(r.body.note) < 3
         THEN Response(400, [error |-> "text too short"])
    ELSE IF InputTooLarge(r.body)
         THEN Response(413, [error |-> "input too large"])
    ELSE IF r.force
         THEN HeuristicResponse(r.body, [model |-> "heuristic:force", fallback |-> TRUE])
    ELSE IF e.GEMINI_API_KEY \in {Undefined, ""}
         THEN HeuristicResponse(r.body, [model |-> "heuristic:no-key", fallback |-> TRUE,
                                         error |-> "GEMINI_API_KEY is not set"])
    ELSE IF ~LooksLikeGoogleKey(e.GEMINI_API_KEY)
         THEN HeuristicResponse(r.body, [model |-> "heuristic:bad-key", fallback |-> TRUE,
                                         error |-> "GEMINI_API_KEY is not a Google key"])
    ELSE NoResponse

ReceiveWith(early) ==
    IF early.kind # "none"
    THEN /\ resp' = early
         /\ pc' = "done"
         /\ UNCHANGED models
    ELSE /\ models' = Candidates(env.GEMINI_MODEL)
         /\ pc' = "loop"
         /\ UNCHANGED resp

\* Lines 171-264: the request is read and answered at once, or the handler
\* enters the model loop with the candidate models.
Receive ==
    /\ pc = "start"
    /\ ReceiveWith(EarlyResponse(req, env))
    /\ UNCHANGED <<req, env, idx, inflight, attempts, lastErr>>

\* Lines 266-276: the next candidate m; the SDK call is made and awaited.
SdkCall ==
    /\ pc = "loop"
    /\ idx <= Len(models)
    /\ inflight' = inflight \cup {<<models[idx], "sdk">>}
    /\ attempts' = Append(attempts, <<models[idx], "sdk">>)
    /\ pc' = "sdk"
    /\ UNCHANGED <<req, env, models, idx, lastErr, resp>>

\* result.response.text() || "{}"
SdkText(text) == IF text.form = "empty" THEN [form |-> "json", obj |-> EmptyObject] ELSE text

\* Lines 268-302: the outcome of the try block of the SDK path.
SdkOutcome(ans, r, m) ==
    IF ans.kind = "throw" THEN Threw(ans.message)
    ELSE ModelResult(r.body, r.trace, SdkText(ans.text), m)

\* Lines 299-306: the result is returned, or the exception is recorded and the
\* REST path is next.
AfterSdk(out) ==
    IF out.threw
    THEN /\ lastErr' = ErrorOf(out.err)
         /\ pc' = "rest"
         /\ UNCHANGED resp
    ELSE /\ resp' = Response(200, out.v)
         /\ pc' = "done"
         /\ UNCHANGED lastErr

\* Lines 276-306: the SDK call settles with ans.
SdkSettle(ans) ==
    /\ pc = "sdk"
    /\ inflight' = inflight \ {<<models[idx], "sdk">>}
    /\ AfterSdk(SdkOutcome(ans, req, models[idx]))
    /\ UNCHANGED <<req, env, models, idx, attempts>>

\* Lines 309-322: the REST call for the same candidate is made and awaited.
RestCall ==
    /\ pc = "rest"
    /\ inflight' = inflight \cup {<<models[idx], "rest">>}
    /\ attempts' = Append(attempts, <<models[idx], "rest">>)
    /\ pc' = "restwait"
    /\ UNCHANGED <<req, env, models, idx, lastErr, resp>>

\* Lines 329-345: the text of the first part of the first candidate of the
\* body j, "{}" when there is none.
RestText(j) ==
    IF j.shape = "text" THEN j.text ELSE [form |-> "json", obj |-> EmptyObject]

\* Lines 309-370: the outcome of the try block of the REST path for an answer
\* with an OK status or none: fetch() or resp.json() throws, a property of a
\* null body is read, or the text is made into a result.
RestOutcome(ans, r, m) ==
    CASE ans.kind = "throw"   -> Threw(ans.message)
      [] ans.kind = "notjson" -> Threw("SyntaxError: Unexpected token")
      [] ans.kind = "json" /\ ans.j.shape = "null" ->
             Threw("TypeError: Cannot read properties of null")
      [] ans.kind = "json" /\ ans.j.shape # "null" ->
             ModelResult(r.body, r.trace, RestText(ans.j), RestModelName(m))

\* Lines 367-374: the result is returned, or the exception is recorded and the
\* next candidate is next.
AfterRest(out) ==
    IF out.threw
    THEN /\ lastErr' = ErrorOf(out.err)
         /\ idx' = idx + 1
         /\ pc' = "loop"
         /\ UNCHANGED resp
    ELSE /\ resp' = Response(200, out.v)
         /\ pc' = "done"
         /\ UNCHANGED <<lastErr, idx>>

\* Lines 324-374: the REST call settles with ans; a status that is not OK is
\* recorded as a string and the next candidate is next.
RestSettle(ans) ==
    /\ pc = "restwait"
    /\ inflight' = inflight \ {<<models[idx], "rest">>}
    /\ IF ans.kind = "http"
       THEN /\ lastErr' = StringErr(RestHttpMessage(models[idx], ans.status))
            /\ idx' = idx + 1
            /\ pc' = "loop"
            /\ UNCHANGED resp
       ELSE AfterRest(RestOutcome(ans, req, models[idx]))
    /\ UNCHANGED <<req, env, models, attempts>>

\* Lines 377-390: heuristic(draft) is called inside the outer try; what it
\* throws is caught by the outer catch, which calls heuristic(draft) again
\* outside of any try.
ExhaustedResponse(h, draft, err) ==
    IF ~h.threw
    THEN Response(200, Merge(h.v, [model |-> "heuristic:fallback", fallback |-> TRUE,
                                   error |-> errorMessage(err)]))
    ELSE HeuristicResponse(draft, [model |-> "heuristic:error", fallback |-> TRUE,
                                   error |-> errorMessage(ErrorOf(h.err))])

\* Lines 377-382: every candidate failed on both paths.
Exhausted ==
    /\ pc = "loop"
    /\ idx > Len(models)
    /\ resp' = ExhaustedResponse(heuristic(req.body), req.body, lastErr)
    /\ pc' = "done"
    /\ UNCHANGED <<req, env, models, idx, inflight, attempts, lastErr>>

(***************************************************************************)
(* The inputs of the POST handler.                                         *)
(***************************************************************************)
GoodKey == "AIzaSyA-1234567890_abcdefghijk"

PostTitles == {<<"Netflix", "kaiyaku">>, <<"abc">>, <<"ab">>}
PostNotes == {<<>>, <<"toukyou", "2024">>}
PostUrls == {Undefined, "netflix.com", "mailto:me@example.com", "https://constructor.io/"}

\* Drafts at the size limits and one character above them.
LongDrafts ==
    {[isDraft |-> TRUE, title |-> tn[1], note |-> tn[2], url |-> Undefined,
      type |-> "memo"] :
        tn \in {<< <<"x2000">>, <<>> >>, << <<"x2001">>, <<>> >>,
                << <<"abc">>, <<"x8000">> >>, << <<"abc">>, <<"x8001">> >>}}

Drafts ==
    {[isDraft |-> TRUE, title |-> t, note |-> n, url |-> u,
      type |-> IF t = <<"Netflix", "kaiyaku">> THEN "subscription" ELSE "memo"] :
        t \in PostTitles, n \in PostNotes, u \in PostUrls}
    \cup LongDrafts

\* A body that is no draft: not JSON, or a field of the wrong type.
InvalidBody == [isDraft |-> FALSE]

Requests ==
    {[body |-> b, trace |-> t, force |-> f] :
        b \in Drafts \cup {InvalidBody}, t \in BOOLEAN, f \in BOOLEAN}

Envs ==
    {[GEMINI_API_KEY |-> k, GEMINI_MODEL |-> m] :
        k \in {Undefined, "", "sk-not-a-google-key", GoodKey},
        m \in {Undefined, "gemini-2.0-flash", "gemini-pro"}}

\* The JSON objects a model answers with.
AIObjects ==
    { [tags |-> <<"eiga", "douga", "entame">>, summary |-> <<"abc", "2024">>,
       confidence |-> 90],
      [tags |-> <<"">>],
      [tags |-> <<>>, summary |-> <<>>],
      EmptyObject,
      [tags |-> <<"eiga", JsonNumber>>, summary |-> <<"abc">>],
      [tags |-> <<"constructor">>],
      [tags |-> TwelveTags, confidence |-> 150] }

PlainObject == [tags |-> <<"eiga">>, summary |-> <<"abc">>]

ModelTexts ==
    {[form |-> "json", obj |-> o] : o \in AIObjects}
    \cup {[form |-> f, obj |-> PlainObject] : f \in {"wrapped", "two", "garbage"}}
    \cup {[form |-> "empty", obj |-> EmptyObject]}

ThrowMessages == {"fetch failed", "[GoogleGenerativeAI Error]: model not found"}

\* What the SDK path can give: import(), generateContent() or text() throws,
\* or a text comes back.
SdkAnswers ==
    {[kind |-> "throw", message |-> e] : e \in ThrowMessages}
    \cup {[kind |-> "text", text |-> t] : t \in ModelTexts}

\* What the REST path can give: fetch() throws, a status that is not OK, a body
\* that is not JSON, or a JSON body j.
RestAnswers ==
    {[kind |-> "throw", message |-> e] : e \in ThrowMessages}
    \cup {[kind |-> "http", status |-> st] : st \in {429, 503}}
    \cup {[kind |-> "notjson"]}
    \cup {[kind |-> "json", j |-> [shape |-> sh]] : sh \in {"null", "nocandidates"}}
    \cup {[kind |-> "json", j |-> [shape |-> "text", text |-> t]] : t \in ModelTexts}

PostStart ==
    /\ req \in Requests
    /\ env \in Envs
    /\ pc = "start"
    /\ models = <<>>
    /\ idx = 1
    /\ inflight = {}
    /\ attempts = <<>>
    /\ lastErr = NullErr
    /\ resp = NoResponse

PostIdle ==
    /\ req = [body |-> InvalidBody, trace |-> FALSE, force |-> FALSE]
    /\ env = [GEMINI_API_KEY |-> Undefined, GEMINI_MODEL |-> Undefined]
    /\ pc = "idle"
    /\ models = <<>>
    /\ idx = 1
    /\ inflight = {}
    /\ attempts = <<>>
    /\ lastErr = NullErr
    /\ resp = NoResponse

(***************************************************************************)
(* The inputs of the gate.                                                 *)
(***************************************************************************)
SixTags == <<"okane", "kounyuu", "akaunto", "tasuku", "sabusuku", "renraku">>

GateFields == {"tags", "summary", "confidence", "model", "fallback", "error", "raw"}

\* The JSON objects the endpoint may answer with: any choice of fields.
GateDatas ==
    {[f \in F |->
        CASE f = "tags"       -> tg
          [] f = "summary"    -> <<"abc">>
          [] f = "confidence" -> HeuristicConfidence
          [] f = "model"      -> "heuristic:fallback"
          [] f = "fallback"   -> fb
          [] f = "error"      -> "fetch failed"
          [] f = "raw"        -> "{}"] :
        F \in {G \in SUBSET GateFields : {"summary", "confidence"} \subseteq G},
        tg \in {<<>>, SixTags}, fb \in BOOLEAN}
    \cup {[error |-> "input too large"]}

GateNets ==
    {[kind |-> "reject", message |-> "Failed to fetch"]}
    \cup {[kind |-> "response", status |-> st, body |-> "notjson"] : st \in {200, 502}}
    \cup {[kind |-> "response", status |-> st, body |-> "null", data |-> EmptyObject] :
             st \in {200, 500}}
    \cup {[kind |-> "response", status |-> st, body |-> "object", data |-> d] :
             st \in {200, 400, 413}, d \in GateDatas}

GateDrafts ==
    {[title |-> <<"Netflix", "kaiyaku">>, note |-> <<>>],
     [title |-> <<"ab">>, note |-> <<>>],
     [title |-> <<"a">>, note |-> <<"ab">>]}

GateNotCalled == [kind |-> "none"]

GateStart ==
    /\ gDraft \in GateDrafts
    /\ gOpts \in [allowFallback : BOOLEAN, trace : BOOLEAN]
    /\ gNet \in GateNets
    /\ gOut = GateNotCalled
    /\ gFetched = FALSE

GateIdle ==
    /\ gDraft = [title |-> <<>>, note |-> <<>>]
    /\ gOpts = [allowFallback |-> FALSE, trace |-> FALSE]
    /\ gNet = [kind |-> "reject", message |-> ""]
    /\ gOut = GateNotCalled
    /\ gFetched = FALSE

GateCall ==
    /\ gOut = GateNotCalled
    /\ gOut' = aiTag(gDraft, gOpts, gNet)
    /\ gFetched' = ~GateTooShort(gDraft)
    /\ UNCHANGED <<gDraft, gOpts, gNet, enVars, postVars, pageVars, pairVars>>

(***************************************************************************)
(* The page of page.tsx: saveNewItem, updateExistingItem and requestAiTags *)
(* over the collection "items".  A document is a record; a field that is   *)
(* null in the store is absent from the record.                            *)
(***************************************************************************)
Null == "<null>"

\* The messages of the page, in English.
MsgTooShort == "title/note too short (3 characters or more)"
MsgAiFailed == "AI tag generation failed"
MsgBadFormat == "AI response has an invalid format"
MsgNoTags == "AI tags were not generated (tags is empty)"

\* String.prototype.trim on a tag.
TrimTag(t) ==
    CASE t = " eiga " -> "eiga"
      [] t = "  "     -> ""
      [] OTHER        -> t

\* Array.isArray(v) && v.every((x) => typeof x === "string" && x.trim().length > 0):
\* every() is true of the empty array.
isNonEmptyStringArray(v) ==
    \A i \in 1..Len(v) : v[i] # JsonNumber /\ TrimTag(v[i]) # ""

\* The fields of o among F.
Pick(o, F) == [f \in DOMAIN o \cap F |-> o[f]]

\* Lines 208-222 of requestAiTags with a test for an array that has members.
AiTagsOfObjectStrict(obj) ==
    IF ~Has(obj, "tags") \/ ~isNonEmptyStringArray(obj.tags) \/ Len(obj.tags) = 0
    THEN Threw(MsgNoTags)
    ELSE Returned(Merge([tags |-> Slice([i \in 1..Len(obj.tags) |-> TrimTag(obj.tags[i])], 12)],
                        Pick(obj, {"summary", "confidence", "model"})))

\* Lines 208-222: from the JSON object of an OK response to the value returned.
AiTagsOfObject(obj) ==
    IF ~Has(obj, "tags") \/ ~isNonEmptyStringArray(obj.tags)
    THEN Threw(MsgNoTags)
    ELSE Returned(Merge([tags |-> Slice([i \in 1..Len(obj.tags) |-> TrimTag(obj.tags[i])], 12)],
                        Pick(obj, {"summary", "confidence", "model"})))

\* Lines 187-223.  net is what the network gives: fetch rejects, or a response
\* with a status and a body: its text when the status is not OK, else a body
\* that is not JSON, a JSON value that is no object, or the object data.
requestAiTags(net) ==
    IF net.kind = "reject" THEN Threw(net.message)
    ELSE IF ~ResOk(net.status)
         THEN Threw(IF net.text # "" THEN net.text ELSE MsgAiFailed)
    ELSE IF net.body = "notjson" THEN Threw("SyntaxError: Unexpected token")
    ELSE IF net.body = "null" THEN Threw(MsgBadFormat)
    ELSE AiTagsOfObject(net.data)

\* draft.url ?? null
OrNull(x) == IF x = Undefined THEN Null ELSE x

\* ai.summary ?? null, ai.confidence ?? null, ai.model ?? null: the fields that
\* are not null.
AiFields(ai) ==
    [f \in {g \in {"aiSummary", "aiConfidence", "aiModel"} :
                (g = "aiSummary" /\ Has(ai, "summary"))
                \/ (g = "aiConfidence" /\ Has(ai, "confidence"))
                \/ (g = "aiModel" /\ Has(ai, "model"))} |->
        CASE f = "aiSummary"    -> ai.summary
          [] f = "aiConfidence" -> ai.confidence
          [] f = "aiModel"      -> ai.model]

\* Lines 965-977: the document addDoc writes.
NewDoc(draft, ai) ==
    Merge([title |-> draft.title, type |-> draft.type, url |-> OrNull(draft.url),
           username |-> OrNull(draft.username), note |-> draft.note,
           tags |-> Slice(ai.tags, 12), createdAt |-> "time of addDoc",
           lastTaggedAt |-> "time of addDoc"],
          AiFields(ai))

\* The fields that updateExistingItem passes to updateDoc (lines 1024-1034).
UpdateFields ==
    {"title", "type", "url", "username", "note", "tags", "aiSummary", "aiConfidence",
     "aiModel", "lastTaggedAt", "updatedAt"}

\* An update that does not write the fields given as null, so that the old
\* value of such a field stays.
updateDocSkippingNull(old, data) == Merge(old, data)

\* updateDoc(ref, data): the fields of data are written, the other fields of
\* the document stay; data holds every field of UpdateFields, those that are
\* absent from the record with the value null.
updateDoc(old, data) == Merge(Pick(old, DOMAIN old \ UpdateFields), data)

\* Lines 1023-1035: the data of updateDoc with re-tagging: every field of the
\* patch is written, an AI field written null is absent.
RetaggedDoc(patch, ai) ==
    Merge([title |-> patch.title, type |-> patch.type, url |-> OrNull(patch.url),
           username |-> OrNull(patch.username), note |-> patch.note,
           tags |-> Slice(ai.tags, 12), lastTaggedAt |-> "time of updateDoc",
           updatedAt |-> "time of updateDoc"],
          AiFields(ai))

\* Lines 1003-1035 without re-tagging: the tags of the patch, the AI fields and
\* lastTaggedAt written null.
\* The data of an update without re-tagging that stamps lastTaggedAt all the same.
ManualDocStamped(patch) ==
    [title |-> patch.title, type |-> patch.type, url |-> OrNull(patch.url),
     username |-> OrNull(patch.username), note |-> patch.note,
     tags |-> Slice(patch.tags, 12), lastTaggedAt |-> "time of updateDoc",
     updatedAt |-> "time of updateDoc"]

ManualDoc(patch) ==
    [title |-> patch.title, type |-> patch.type, url |-> OrNull(patch.url),
     username |-> OrNull(patch.username), note |-> patch.note,
     tags |-> Slice(patch.tags, 12), lastTaggedAt |-> Null,
     updatedAt |-> "time of updateDoc"]

\* The log of writes with the write w added: the last two are kept.
Logged(w) == IF Len(writes) < 2 THEN Append(writes, w) ELSE <<writes[2], w>>

\* Another update of the document id is among the operations ops.
UpdatePending(ops, id) == \E j \in 1..Len(ops) : ops[j].kind = "update" /\ ops[j].id = id

\* The sequence s without its element at position i.
RemoveAt(s, i) == SubSeq(s, 1, i - 1) \o SubSeq(s, i + 1, Len(s))

\* contentLen < 3 (lines 956 and 997).
PageTooShort(d) == TrimLen(d.title) + TrimLen(d.note) < 3

MaxItems == 1       \* the documents of the collection
MaxPending == 2     \* the operations awaiting requestAiTags at once

\* Lines 947-963: saveNewItem up to its await.
SaveNewStart(draft) ==
    /\ Len(store) + Len(SelectSeq(pending, LAMBDA o : o.kind = "save")) < MaxItems
    /\ Len(pending) < MaxPending
    /\ IF PageTooShort(draft)
       THEN /\ errorMsg' = MsgTooShort
            /\ UNCHANGED <<store, pending>>
       ELSE /\ errorMsg' = Null
            /\ pending' = Append(pending, [kind |-> "save", id |-> 0, d |-> draft])
            /\ UNCHANGED store
    /\ UNCHANGED writes

\* Lines 983-1035: updateExistingItem up to its await of requestAiTags, or to
\* its end when re-tagging is off.
UpdateStart(id, patch) ==
    /\ id \in 1..Len(store)
    /\ Len(pending) < MaxPending
    /\ IF PageTooShort(patch)
       THEN /\ errorMsg' = MsgTooShort
            /\ UNCHANGED <<store, pending>>
            /\ UNCHANGED writes
       ELSE IF patch.retagWithAI
       THEN /\ errorMsg' = Null
            /\ pending' = Append(pending, [kind |-> "update", id |-> id, d |-> patch])
            /\ UNCHANGED <<store, writes>>
       ELSE /\ errorMsg' = Null
            /\ store' = [store EXCEPT ![id] = updateDoc(store[id], ManualDoc(patch))]
            /\ writes' = Logged([kind |-> "update", id |-> id,
                                  concurrent |-> UpdatePending(pending, id)])
            /\ UNCHANGED pending

\* The catch with a message of its own in place of e.message.
FinishGenericMessage(o, out) ==
    IF out.threw
    THEN /\ errorMsg' = MsgAiFailed
         /\ UNCHANGED store
    ELSE /\ store' = IF o.kind = "save" THEN Append(store, NewDoc(o.d, out.v))
                     ELSE [store EXCEPT ![o.id] = updateDoc(store[o.id], RetaggedDoc(o.d, out.v))]
         /\ UNCHANGED errorMsg

\* Lines 963-980 and 1010-1038: what an operation does with the outcome of
\* requestAiTags: the write, or the catch that sets errorMsg.
Finish(o, out) ==
    IF out.threw
    THEN /\ errorMsg' = out.err
         /\ UNCHANGED store
    ELSE /\ store' = IF o.kind = "save" THEN Append(store, NewDoc(o.d, out.v))
                     ELSE [store EXCEPT ![o.id] = updateDoc(store[o.id], RetaggedDoc(o.d, out.v))]
         /\ UNCHANGED errorMsg

\* requestAiTags of the pending operation at position i settles with net.
TagSettle(i, net) ==
    /\ i \in 1..Len(pending)
    /\ pending' = RemoveAt(pending, i)
    /\ Finish(pending[i], requestAiTags(net))
    /\ writes' = IF requestAiTags(net).threw THEN writes
                 ELSE Logged([kind |-> pending[i].kind,
                              id |-> IF pending[i].kind = "save" THEN Len(store) + 1
                                     ELSE pending[i].id,
                              concurrent |-> /\ pending[i].kind = "update"
                                             /\ UpdatePending(RemoveAt(pending, i),
                                                               pending[i].id)])

\* The inputs of the page.
PageDrafts ==
    {[title |-> <<"Netflix", "kaiyaku">>, type |-> "subscription", url |-> Undefined,
      username |-> Undefined, note |-> <<>>],
     [title |-> <<"abc">>, type |-> "account", url |-> "https://www.Netflix.com/browse",
      username |-> "me", note |-> <<"toukyou">>],
     [title |-> <<"ab">>, type |-> "memo", url |-> Undefined, username |-> Undefined,
      note |-> <<>>]}

\* The tags of the edit dialog at save: trimmed, distinct, at most twelve.
PatchTags == {<<>>, <<"eiga">>}

Patches ==
    {Merge(d, [tags |-> tg, retagWithAI |-> r]) :
        d \in PageDrafts, tg \in PatchTags, r \in BOOLEAN}

ThirteenTags == TwelveTags \o <<"t13">>

\* The JSON objects an OK response may hold.
PageDatas ==
    { [tags |-> SixTags, summary |-> "abc", confidence |-> DefaultModelConfidence,
       model |-> "gemini-1.5-flash", fallback |-> FALSE],
      [tags |-> SixTags, summary |-> "abc", confidence |-> HeuristicConfidence,
       model |-> "heuristic:no-key", fallback |-> TRUE,
       error |-> "GEMINI_API_KEY is not set"],
      [tags |-> <<"", "sabusuku", "douga", "kaiyaku", "teigaku", "getsugaku">>,
       summary |-> "abc", confidence |-> HeuristicConfidence,
       model |-> "heuristic:force", fallback |-> TRUE],
      [tags |-> <<" eiga ", "douga">>],
      [tags |-> <<"eiga", JsonNumber>>],
      [tags |-> ThirteenTags, model |-> "gemini-1.5-flash", fallback |-> FALSE],
      [tags |-> <<>>, summary |-> "abc"],
      [summary |-> "abc"] }

PageNets ==
    {[kind |-> "reject", message |-> "Failed to fetch"]}
    \cup {[kind |-> "response", status |-> 400, text |-> "{\"error\":\"text too short\"}"],
          [kind |-> "response", status |-> 413, text |-> "{\"error\":\"input too large\"}"],
          [kind |-> "response", status |-> 500, text |-> ""]}
    \cup {[kind |-> "response", status |-> 200, body |-> b] : b \in {"notjson", "null"}}
    \cup {[kind |-> "response", status |-> 200, body |-> "object", data |-> d] :
             d \in PageDatas}

PageStart ==
    /\ store = <<>>
    /\ errorMsg = Null
    /\ pending = <<>>
    /\ writes = <<>>

PageIdle == PageStart

(***************************************************************************)
(* Two calls of POST in flight in one process.  A call runs from one await *)
(* to the next without interruption; at an await the other call may run.   *)
(* The running call has the variables of the handler, the other call is    *)
(* kept in other.  process.env and the expression objects of the tables    *)
(* belong to the process and are common to both.                           *)
(***************************************************************************)
\* The local state of a call for the request r that has not run yet.
CallOf(r) ==
    [req |-> r, pc |-> "start", models |-> <<>>, idx |-> 1, inflight |-> {},
     attempts |-> <<>>, lastErr |-> NullErr, resp |-> NoResponse, answers |-> <<>>]

PairIdle ==
    /\ answers = <<>>
    /\ other = CallOf([body |-> InvalidBody, trace |-> FALSE, force |-> FALSE])

PairRequests ==
    {[body |-> [isDraft |-> TRUE, title |-> tn[1], note |-> tn[2], url |-> Undefined,
                type |-> "memo"],
      trace |-> FALSE, force |-> f] :
        tn \in {<< <<"Netflix", "kaiyaku">>, <<>> >>, << <<"abc">>, <<"toukyou", "2024">> >>},
        f \in BOOLEAN}

PairEnvs ==
    {[GEMINI_API_KEY |-> k, GEMINI_MODEL |-> Undefined] : k \in {Undefined, GoodKey}}

PairSdkAnswers ==
    {[kind |-> "throw", message |-> "fetch failed"],
     [kind |-> "text", text |-> [form |-> "json", obj |-> [tags |-> <<"eiga", "douga">>]]]}

PairRestAnswers ==
    {[kind |-> "http", status |-> 503],
     [kind |-> "json", j |-> [shape |-> "text",
                              text |-> [form |-> "json", obj |-> [tags |-> <<>>]]]]}

PairStart ==
    /\ req \in PairRequests
    /\ env \in PairEnvs
    /\ pc = "start"
    /\ models = <<>>
    /\ idx = 1
    /\ inflight = {}
    /\ attempts = <<>>
    /\ lastErr = NullErr
    /\ resp = NoResponse
    /\ answers = <<>>
    /\ other \in {CallOf(r) : r \in PairRequests}

\* The expression objects after a step of the running call, which has or has
\* not called ensureMinTags on the text of its draft.
Scanned(called) ==
    reLast' = IF called THEN RegExpsAfter(BaseOf(req.body.title, req.body.note))
              ELSE reLast

\* A response made by heuristic(): not one of the input validation.
FromHeuristic(early) == early.kind # "none" /\ early.status \notin {400, 413}

PairReceive ==
    /\ Receive
    /\ Scanned(FromHeuristic(EarlyResponse(req, env)))
    /\ UNCHANGED <<answers, other>>

PairSdkCall == SdkCall /\ UNCHANGED <<reLast, answers, other>>

PairSdkSettle(ans) ==
    /\ SdkSettle(ans)
    /\ Scanned(ans.kind = "text")
    /\ answers' = Append(answers, ans)
    /\ UNCHANGED other

PairRestCall == RestCall /\ UNCHANGED <<reLast, answers, other>>

PairRestSettle(ans) ==
    /\ RestSettle(ans)
    /\ Scanned(ans.kind = "json" /\ ans.j.shape # "null")
    /\ answers' = Append(answers, ans)
    /\ UNCHANGED other

PairExhausted ==
    /\ Exhausted
    /\ Scanned(TRUE)
    /\ UNCHANGED <<answers, other>>

\* The running call is at an await, or has not started, or is done, and the
\* other call runs next.
Switch ==
    /\ other' = [req |-> req, pc |-> pc, models |-> models, idx |-> idx,
                 inflight |-> inflight, attempts |-> attempts, lastErr |-> lastErr,
                 resp |-> resp, answers |-> answers]
    /\ req' = other.req
    /\ pc' = other.pc
    /\ models' = other.models
    /\ idx' = other.idx
    /\ inflight' = other.inflight
    /\ attempts' = other.attempts
    /\ lastErr' = other.lastErr
    /\ resp' = other.resp
    /\ answers' = other.answers
    /\ UNCHANGED <<env, reLast>>

(***************************************************************************)
(* The specifications.                                                     *)
(***************************************************************************)
\* ensureMinTags on its own.
EnrichInit == EnrichStart /\ GateIdle /\ PostIdle /\ PageIdle /\ PairIdle
EnrichNext == EnrichCall
SpecEnrich == EnrichInit /\ [][EnrichNext]_vars

\* ensureMinTags called repeatedly.
RepeatInit == EnrichIdle /\ GateIdle /\ PostIdle /\ PageIdle /\ PairIdle
RepeatNext == \E seed \in RepeatSeeds, ctx \in RepeatCtxs : EnrichAgain(seed, ctx)
SpecRepeat == RepeatInit /\ [][RepeatNext]_vars

\* aiTag on its own, with an endpoint that may answer anything.
GateInit == GateStart /\ EnrichIdle /\ PostIdle /\ PageIdle /\ PairIdle
GateNext == GateCall
SpecGate == GateInit /\ [][GateNext]_vars

\* The input guard on both sides: the gate is called with the draft of the
\* request the handler is given.
GuardStart ==
    /\ gDraft = IF req.body.isDraft
                THEN [title |-> req.body.title, note |-> req.body.note]
                ELSE [title |-> <<>>, note |-> <<>>]
    /\ gOpts = [allowFallback |-> FALSE, trace |-> req.trace]
    /\ gNet \in {[kind |-> "reject", message |-> "Failed to fetch"],
                 [kind |-> "response", status |-> 200, body |-> "object",
                  data |-> [tags |-> SixTags, summary |-> <<"abc">>,
                            confidence |-> DefaultModelConfidence]]}
    /\ gOut = GateNotCalled
    /\ gFetched = FALSE

\* One call of the POST handler.
Init == PostStart /\ EnrichIdle /\ GateIdle /\ PageIdle /\ PairIdle

Next ==
    \/ Receive /\ UNCHANGED <<enVars, gateVars, pageVars, pairVars>>
    \/ SdkCall /\ UNCHANGED <<enVars, gateVars, pageVars, pairVars>>
    \/ \E ans \in SdkAnswers : SdkSettle(ans) /\ UNCHANGED <<enVars, gateVars, pageVars, pairVars>>
    \/ RestCall /\ UNCHANGED <<enVars, gateVars, pageVars, pairVars>>
    \/ \E ans \in RestAnswers : RestSettle(ans) /\ UNCHANGED <<enVars, gateVars, pageVars, pairVars>>
    \/ Exhausted /\ UNCHANGED <<enVars, gateVars, pageVars, pairVars>>

Spec == Init /\ [][Next]_vars

\* The handler where every step that can be taken is taken in the end: the
\* runtime resumes the handler, and every remote call returns or fails.  The
\* requests and environments are a part of those of Spec.
LiveRequests ==
    {[body |-> [isDraft |-> TRUE, title |-> tu[1], note |-> <<>>, url |-> tu[2],
                type |-> "memo"],
      trace |-> FALSE, force |-> f] :
        tu \in {<< <<"Netflix", "kaiyaku">>, Undefined >>, << <<"ab">>, Undefined >>,
                << <<"abc">>, "https://constructor.io/" >>},
        f \in BOOLEAN}

LiveEnvs ==
    {[GEMINI_API_KEY |-> k, GEMINI_MODEL |-> m] :
        k \in {Undefined, GoodKey}, m \in {Undefined, "gemini-pro"}}

LiveStart ==
    /\ req \in LiveRequests
    /\ env \in LiveEnvs
    /\ pc = "start"
    /\ models = <<>>
    /\ idx = 1
    /\ inflight = {}
    /\ attempts = <<>>
    /\ lastErr = NullErr
    /\ resp = NoResponse

LiveInit == LiveStart /\ EnrichIdle /\ GateIdle /\ PageIdle /\ PairIdle

\* The handler goes on to its next remote call: weak fairness of SdkCall and
\* RestCall.
CallsFairness ==
    /\ WF_vars(SdkCall /\ UNCHANGED <<enVars, gateVars, pageVars, pairVars>>)
    /\ WF_vars(RestCall /\ UNCHANGED <<enVars, gateVars, pageVars, pairVars>>)

\* The states in which Receive, SdkSettle, RestSettle or Exhausted is the
\* step to take, and no other step can be taken.
AwaitsStep ==
    \/ pc \in {"start", "sdk", "restwait"}
    \/ pc = "loop" /\ idx > Len(models)

\* Weak fairness of Receive, SdkSettle, RestSettle and Exhausted together,
\* with their enabling condition written out: a request is read, every remote
\* call returns or fails, and the loop is left when the candidates are used up.
StepsFairness == (<>[]AwaitsStep) => []<><<Next>>_vars

SpecLive == LiveInit /\ [][Next]_vars /\ CallsFairness /\ StepsFairness

\* Two calls of the handler in flight.
PairInit == PairStart /\ EnrichIdle /\ GateIdle /\ PageIdle
PairNext ==
    \/ PairReceive /\ UNCHANGED <<enSeed, enCtx, enOut, enLog, gateVars, pageVars>>
    \/ PairSdkCall /\ UNCHANGED <<enSeed, enCtx, enOut, enLog, gateVars, pageVars>>
    \/ \E ans \in PairSdkAnswers :
          PairSdkSettle(ans) /\ UNCHANGED <<enSeed, enCtx, enOut, enLog, gateVars, pageVars>>
    \/ PairRestCall /\ UNCHANGED <<enSeed, enCtx, enOut, enLog, gateVars, pageVars>>
    \/ \E ans \in PairRestAnswers :
          PairRestSettle(ans) /\ UNCHANGED <<enSeed, enCtx, enOut, enLog, gateVars, pageVars>>
    \/ PairExhausted /\ UNCHANGED <<enSeed, enCtx, enOut, enLog, gateVars, pageVars>>
    \/ Switch /\ UNCHANGED <<enSeed, enCtx, enOut, enLog, gateVars, pageVars>>
SpecPair == PairInit /\ [][PairNext]_vars

\* The page: any sequence of add and edit operations, the tagging calls
\* settling in any order.
PageInit == PageStart /\ EnrichIdle /\ GateIdle /\ PostIdle /\ PairIdle

PageNext ==
    \/ \E draft \in PageDrafts : SaveNewStart(draft) /\ UNCHANGED <<enVars, gateVars, postVars, pairVars>>
    \/ \E id \in 1..MaxItems, patch \in Patches :
          UpdateStart(id, patch) /\ UNCHANGED <<enVars, gateVars, postVars, pairVars>>
    \/ \E i \in 1..MaxPending, net \in PageNets :
          TagSettle(i, net) /\ UNCHANGED <<enVars, gateVars, postVars, pairVars>>

SpecPage == PageInit /\ [][PageNext]_vars

GuardInit == PostStart /\ EnrichIdle /\ GuardStart /\ PageIdle /\ PairIdle
GuardNext == Next \/ GateCall
SpecGuard == GuardInit /\ [][GuardNext]_vars

(***************************************************************************)
(* The enrichment: properties of ensureMinTags under SpecEnrich.           *)
(***************************************************************************)
\* C1: for every seed and every context, ensureMinTags(seed, ctx, 6, 10)
\* returns a list of between 6 and 10 tags.
C1_SizeBound ==
    enOut # NotCalled => (~enOut.threw /\ Len(enOut.v) \in 6..10)

(***************************************************************************)
(* The gate: properties of aiTag under SpecGate.                           *)
(***************************************************************************)
GateCalled == gOut # GateNotCalled

\* The draft passes the length guard and the endpoint answered with an OK
\* status and a JSON object: gNet.data is the endpoint's result.
GateHasResult ==
    /\ TrimLen(gDraft.title) + TrimLen(gDraft.note) >= 3
    /\ gNet.kind = "response"
    /\ ResOk(gNet.status)
    /\ gNet.body = "object"

GateFailsWith(name) == gOut.kind = "throw" /\ gOut.name = name

TagsMissingOrEmpty(data) == ~Has(data, "tags") \/ Len(data.tags) = 0

\* C2 as stated: with allowFallback false the gate fails with the
\* fallback-rejected error whenever the endpoint's result has fallback === true;
\* with allowFallback true it never fails with that error.
C2_RejectsEveryFallback ==
    GateCalled =>
        /\ (GateHasResult /\ ~gOpts.allowFallback /\ TruthyFlag(gNet.data, "fallback"))
               => GateFailsWith("FallbackRejected")
        /\ gOpts.allowFallback => ~GateFailsWith("FallbackRejected")

\* C2, amended: with allowFallback false the gate fails with the
\* fallback-rejected error whenever the endpoint's result has a non-empty tags
\* array and fallback === true; with allowFallback true it never fails with
\* that error.
C2_RejectsFallbackWithTags ==
    GateCalled =>
        /\ (GateHasResult /\ ~gOpts.allowFallback /\ TruthyFlag(gNet.data, "fallback")
              /\ ~TagsMissingOrEmpty(gNet.data))
               => GateFailsWith("FallbackRejected")
        /\ gOpts.allowFallback => ~GateFailsWith("FallbackRejected")

\* A fallback result with tags was rejected.
C2_Witness ==
    /\ GateHasResult
    /\ ~gOpts.allowFallback
    /\ TruthyFlag(gNet.data, "fallback")
    /\ ~TagsMissingOrEmpty(gNet.data)
    /\ GateFailsWith("FallbackRejected")

\* C3: the gate fails with the empty-tags error whenever the endpoint's result
\* has a missing or zero-length tags array, for both values of allowFallback.
C3_EmptyTagsRejected ==
    (GateCalled /\ GateHasResult /\ TagsMissingOrEmpty(gNet.data))
        => GateFailsWith("EmptyTags")

\* A result without a tags field was rejected although fallback was allowed.
C3_Witness ==
    /\ GateHasResult
    /\ gOpts.allowFallback
    /\ ~Has(gNet.data, "tags")
    /\ GateFailsWith("EmptyTags")

\* C4: the empty-tags rule is evaluated before the fallback rule, so that a
\* result that is both empty and fallback=true fails with EmptyTags; a result
\* that passes both rules is returned exactly as received.
C4_RuleOrderAndFrame ==
    (GateCalled /\ GateHasResult) =>
        /\ (TagsMissingOrEmpty(gNet.data) /\ TruthyFlag(gNet.data, "fallback"))
               => (GateFailsWith("EmptyTags") /\ ~GateFailsWith("FallbackRejected"))
        /\ (~TagsMissingOrEmpty(gNet.data)
              /\ (gOpts.allowFallback \/ ~TruthyFlag(gNet.data, "fallback")))
               => gOut = GateReturn(gNet.data)
        /\ gOut.kind = "return" => gOut.data = gNet.data

\* A fallback result carrying every field was let through and returned as it
\* was received.
C4_Witness ==
    /\ GateHasResult
    /\ gOut.kind = "return"
    /\ DOMAIN gNet.data = GateFields
    /\ gNet.data.fallback
    /\ gOut.data = gNet.data

(***************************************************************************)
(* The POST handler: properties of one call under Spec.                    *)
(***************************************************************************)
\* The request body passes the input validation of lines 175-198.
ValidDraft ==
    /\ req.body.isDraft
    /\ TrimLen(req.body.title) + TrimLen(req.body.note) >= 3
    /\ TrimLen(req.body.title) <= 2000
    /\ TrimLen(req.body.note) <= 8000

\* The handler gave its caller a tag result with status 200.
RespondedTagResult ==
    /\ resp.kind = "response"
    /\ resp.status = 200
    /\ {"tags", "summary", "confidence", "model", "fallback"} \subseteq DOMAIN resp.body

\* The tags of a model answer that survive as seeds of the enrichment.
UsableTags(text) == SeedSet(AiTagsOf(ParseModelText(text)))

\* The text of a model answer cannot be parsed, directly or by extraction.
Unparsable(text) == ParseModelText(text).null

\* The text the REST path reads from an answer with a JSON body.
RestAnswerHasText(ans) == ans.kind = "json" /\ ans.j.shape # "null"

\* C5: for every result returned from a model path (SDK or REST), fallback is
\* true if and only if the model supplied zero usable tags, that is zero
\* non-empty strings.
C5_FallbackIffNoUsableTags ==
    [][ /\ \A ans \in SdkAnswers :
             (ans.kind = "text" /\ SdkSettle(ans) /\ resp'.kind = "response")
                 => (resp'.body.fallback <=> UsableTags(SdkText(ans.text)) = <<>>)
        /\ \A ans \in RestAnswers :
             (RestAnswerHasText(ans) /\ RestSettle(ans) /\ resp'.kind = "response")
                 => (resp'.body.fallback <=> UsableTags(RestText(ans.j)) = <<>>)
      ]_vars

\* C6: when the text returned by a model path cannot be parsed as JSON, the
\* loop returns no result from that path: it records the failure as the last
\* error and goes on to the REST path of the same model, or to the next model.
C6_UnparsableFallsThrough ==
    [][ /\ \A ans \in SdkAnswers :
             (ans.kind = "text" /\ Unparsable(SdkText(ans.text)) /\ SdkSettle(ans))
                 => (resp' = NoResponse /\ pc' = "rest" /\ lastErr' # NullErr)
        /\ \A ans \in RestAnswers :
             (RestAnswerHasText(ans) /\ Unparsable(RestText(ans.j)) /\ RestSettle(ans))
                 => (resp' = NoResponse /\ pc' = "loop" /\ idx' = idx + 1
                     /\ lastErr' # NullErr)
      ]_vars

\* The candidates in the order the specification states: the configured model, then
\* gemini-1.5-flash, then gemini-2.0-flash, each once.
ExpectedCandidates ==
    IF env.GEMINI_MODEL \in {Undefined, "", "gemini-1.5-flash"}
    THEN <<"gemini-1.5-flash", "gemini-2.0-flash">>
    ELSE IF env.GEMINI_MODEL = "gemini-2.0-flash"
    THEN <<"gemini-2.0-flash", "gemini-1.5-flash">>
    ELSE <<env.GEMINI_MODEL, "gemini-1.5-flash", "gemini-2.0-flash">>

\* The attempts of a call in which everything fails: for each candidate in
\* order the SDK path, then the REST path.
ExpectedAttempts ==
    [i \in 1..(2 * Len(ExpectedCandidates)) |->
        <<ExpectedCandidates[(i + 1) \div 2], IF i % 2 = 1 THEN "sdk" ELSE "rest">>]

C7_Sequential ==
    /\ Cardinality(inflight) <= 1
    /\ Len(attempts) <= Len(ExpectedAttempts)
    /\ \A i \in 1..Len(attempts) : attempts[i] = ExpectedAttempts[i]
    /\ inflight # {} => (attempts # <<>> /\ inflight = {attempts[Len(attempts)]})
    /\ Len(attempts) >= 2 => lastErr # NullErr
    /\ inflight # {} => resp = NoResponse
    /\ resp # NoResponse => pc = "done"

\* C7: the remote attempts of one call are sequential and the first success
\* wins: the candidates are visited in the order configured model,
\* gemini-1.5-flash, gemini-2.0-flash without duplicates, for each the SDK path
\* and then, after its failure, the REST path; the next candidate comes after
\* both paths of the previous one failed; at most one attempt is in flight,
\* each (candidate, path) pair is attempted at most once, and no attempt is
\* made after a result was returned.
C7_SequentialFirstSuccess ==
    /\ []C7_Sequential
    /\ [][ /\ attempts' # attempts =>
                 (resp = NoResponse /\ inflight = {} /\ Len(attempts') = Len(attempts) + 1)
           /\ resp # NoResponse => (attempts' = attempts /\ inflight' = inflight)
         ]_vars

\* A configured gemini-2.0-flash is visited first and not again: the call
\* tried both paths of both candidates, all of which failed.
C7_Witness ==
    /\ env.GEMINI_MODEL = "gemini-2.0-flash"
    /\ attempts = << <<"gemini-2.0-flash", "sdk">>, <<"gemini-2.0-flash", "rest">>,
                     <<"gemini-1.5-flash", "sdk">>, <<"gemini-1.5-flash", "rest">> >>
    /\ pc = "done"

\* Every candidate failed on both paths and the handler is done.
AllCandidatesFailed ==
    /\ pc = "done"
    /\ models # <<>>
    /\ idx > Len(models)
    /\ Len(attempts) = 2 * Len(models)

\* C8: if every candidate fails on both paths, the handler returns, with status
\* 200, a result with fallback=true, model "heuristic:fallback", between 6 and
\* 10 tags, and error set to the description of the last failure.
C8_ExhaustedGivesHeuristic ==
    AllCandidatesFailed =>
        /\ RespondedTagResult
        /\ resp.body.fallback
        /\ resp.body.model = "heuristic:fallback"
        /\ Len(resp.body.tags) \in 6..10
        /\ Has(resp.body, "error")
        /\ resp.body.error = errorMessage(lastErr)

\* C9: for every draft that passes the input validation and every behaviour of
\* the remote backends, the handler returns a tag result with status 200 and
\* propagates no failure; an exception that escapes the model loop yields the
\* heuristic result with model "heuristic:error" and fallback=true.
C9_AlwaysTagResult ==
    (pc = "done" /\ ValidDraft) =>
        /\ RespondedTagResult
        /\ (AllCandidatesFailed /\ heuristic(req.body).threw)
               => (resp.body.model = "heuristic:error" /\ resp.body.fallback)

\* C10: with the force flag and a draft that passes the input validation, the
\* handler returns fallback=true and model "heuristic:force" whatever the key
\* is, and makes no remote call.
C10_ForceGivesHeuristic ==
    (pc = "done" /\ ValidDraft /\ req.force) =>
        /\ RespondedTagResult
        /\ resp.body.fallback
        /\ resp.body.model = "heuristic:force"
        /\ attempts = <<>>

\* The key is not configured, or is configured and fails the format check.
KeyUnusable == env.GEMINI_API_KEY \in {Undefined, ""} \/ ~LooksLikeGoogleKey(env.GEMINI_API_KEY)

\* C11: when the API key is not configured, or fails the format check, an
\* unforced call with a valid draft returns a heuristic tag result with status
\* 200, fallback=true and a non-empty error, and makes no remote call.
C11_NoKeyGivesHeuristic ==
    (pc = "done" /\ ValidDraft /\ ~req.force /\ KeyUnusable) =>
        /\ RespondedTagResult
        /\ resp.body.fallback
        /\ resp.body.model \in {"heuristic:no-key", "heuristic:bad-key"}
        /\ Has(resp.body, "error")
        /\ resp.body.error # ""
        /\ attempts = <<>>

(***************************************************************************)
(* The input guard of the handler and of the gate, under SpecGuard.        *)
(***************************************************************************)
\* The request body is a draft whose trimmed title and note have fewer than
\* three characters together.
ShortDraft ==
    /\ req.body.isDraft
    /\ TrimLen(req.body.title) + TrimLen(req.body.note) < 3

\* C12: a draft whose trimmed title length plus trimmed note length is below 3
\* is rejected as too short, by the handler with status 400 and by the gate
\* with a thrown error, before any remote call, for every value of the force
\* and trace flags and every key.
C12_TooShortRejected ==
    /\ (pc = "done" /\ ShortDraft) =>
           (resp = Response(400, [error |-> "text too short"]) /\ attempts = <<>>)
    /\ (GateCalled /\ TrimLen(gDraft.title) + TrimLen(gDraft.note) < 3) =>
           (gOut = GateError("InputTooShort", <<>>) /\ ~gFetched)

\* A forced request with a valid key and a draft of two characters was
\* answered, and the gate was called with the same draft.
C12_Witness ==
    /\ pc = "done"
    /\ ShortDraft
    /\ req.force
    /\ LooksLikeGoogleKey(env.GEMINI_API_KEY)
    /\ resp.status = 400
    /\ GateCalled
    /\ gOut.kind = "throw"

(***************************************************************************)
(* The size limits and the body check of the handler, under Spec.          *)
(***************************************************************************)
\* The handler gave no tag result and made no remote call.
RejectedWith(status) ==
    /\ resp.kind = "response"
    /\ resp.status = status
    /\ ~Has(resp.body, "tags")
    /\ attempts = <<>>

\* C13: a draft whose trimmed title exceeds 2000 characters or whose trimmed
\* note exceeds 8000 characters is rejected with status 413, a body that is no
\* well-typed draft with status 400, in both cases with no tag result and no
\* remote call; a title of exactly 2000 and a note of exactly 8000 characters
\* are accepted.
C13_TooLargeRejected ==
    pc = "done" =>
        /\ ~req.body.isDraft => RejectedWith(400)
        /\ (req.body.isDraft
              /\ (TrimLen(req.body.title) > 2000 \/ TrimLen(req.body.note) > 8000))
               => (RejectedWith(413) /\ resp.body = [error |-> "input too large"])
        /\ (req.body.isDraft /\ ~ShortDraft
              /\ TrimLen(req.body.title) <= 2000 /\ TrimLen(req.body.note) <= 8000)
               => (resp.status \notin {400, 413} /\ resp.body # [error |-> "input too large"])

\* A note of 8001 characters was rejected with status 413.
C13_Witness ==
    /\ pc = "done"
    /\ req.body.isDraft
    /\ TrimLen(req.body.note) = 8001
    /\ RejectedWith(413)

(***************************************************************************)
(* The page: properties of the store writes under SpecPage.                *)
(***************************************************************************)
\* C14: after any sequence of add and edit operations, with or without AI
\* re-tagging, no document of the store has an empty tag list.
C14_NoEmptyTagsStored ==
    \A i \in 1..Len(store) : store[i].tags # <<>>

\* The OK response net holds a tag result with fallback = true.
IsFallbackResult(net) ==
    /\ net.kind = "response"
    /\ ResOk(net.status)
    /\ net.body = "object"
    /\ TruthyFlag(net.data, "fallback")

\* C15: a tag result with fallback=true is rejected by the page and is not
\* written to the store by saveNewItem or updateExistingItem.
C15_FallbackNeverStored ==
    [][ \A i \in 1..MaxPending, net \in PageNets :
            (IsFallbackResult(net) /\ TagSettle(i, net))
                => (store' = store /\ errorMsg' # Null)
      ]_vars

\* The answers of the network on which requestAiTags throws.
ErrorNets == {net \in PageNets : requestAiTags(net).threw}

BrandsIn(base) == {i \in 1..Len(BRAND_TAGS) : Includes(base, BRAND_TAGS[i].k)}

\* C17: whenever the lower-cased text of a draft contains a key of the brand
\* map, every category tag of that brand is in the list that ensureMinTags
\* returns, for an empty seed (a heuristic result) and for a seed of the
\* model's own tags alike.
C17_BrandTagsPresent ==
    (enOut # NotCalled /\ ~enOut.threw)
        => \A i \in BrandsIn(enCtx.base) :
               RangeOf(BRAND_TAGS[i].tags) \subseteq RangeOf(enOut.v)


\* A URL that is given and that new URL() rejects.
MalformedUrl(url) == ~UrlFalsy(url) /\ ~UrlParses(url)

\* C18: a URL that fails to parse does not make ensureMinTags raise and adds
\* no tag: the outcome of the call is the outcome of the call with the same
\* seed and text and no URL.
C18_MalformedUrlIgnored ==
    (enOut # NotCalled /\ MalformedUrl(enCtx.url))
        => enOut = ensureMinTags(enSeed, [enCtx EXCEPT !.url = Undefined], 6, 10)

\* The enrichment of the text kaiyaku with the URL netflix.com has returned
\* the tags of the text and the fill, none of them from the URL.
C18_Witness ==
    /\ enSeed = <<>>
    /\ enCtx = [base |-> <<"kaiyaku">>, url |-> "netflix.com"]
    /\ enOut = Returned(<<"kaiyaku", "kyanseru", "taikai", "teishi", "okane", "kounyuu">>)


\* C19: ensureMinTags is deterministic: any two of its calls with the same
\* seed and the same context (text and URL), whatever calls were made before
\* and between them, have the same outcome, the same tags in the same order.
C19_Deterministic ==
    \A i \in 1..Len(enLog), j \in 1..Len(enLog) :
        (enLog[i].seed = enLog[j].seed /\ enLog[i].ctx = enLog[j].ctx)
            => enLog[i].out = enLog[j].out

\* The same call was made first and third, with a call on another text in
\* between, and returned the same list.
C19_Witness ==
    /\ Len(enLog) = 3
    /\ enLog[1].seed = <<>>
    /\ enLog[1].ctx = [base |-> <<"kaiyaku">>, url |-> Undefined]
    /\ enLog[2].ctx.base = <<"sabusuku", "toukyou">>
    /\ enLog[3].seed = enLog[1].seed
    /\ enLog[3].ctx = enLog[1].ctx
    /\ enLog[3].out = Returned(<<"kaiyaku", "kyanseru", "taikai", "teishi", "okane", "kounyuu">>)


(***************************************************************************)
(* The end-to-end scenarios, under Spec.                                   *)
(***************************************************************************)
\* The request carries the draft {title: "Netflix kaiyaku", type:
\* "subscription"} with no note and no URL.
ScenarioNetflixCancel ==
    /\ req.body.isDraft
    /\ req.body.title = <<"Netflix", "kaiyaku">>
    /\ req.body.note = <<>>
    /\ req.body.url = Undefined
    /\ req.body.type = "subscription"

\* The handler answered with the result of heuristic().
RespondedHeuristic ==
    /\ RespondedTagResult
    /\ resp.body.model \in {"heuristic:force", "heuristic:no-key", "heuristic:bad-key",
                            "heuristic:fallback", "heuristic:error"}

\* C20: for the draft {title: "Netflix kaiyaku", type: "subscription"} with
\* no note and no URL the heuristic tag list, cut to 10, contains the
\* subscription tag sabusuku, the video tag douga and the cancellation tag
\* kaiyaku.
C20_NetflixCancelTags ==
    (ScenarioNetflixCancel /\ RespondedHeuristic)
        => /\ Len(resp.body.tags) <= 10
           /\ {"sabusuku", "douga", "kaiyaku"} \subseteq RangeOf(resp.body.tags)

\* A forced call with that draft was answered with the heuristic list.
C20_Witness ==
    /\ ScenarioNetflixCancel
    /\ req.force
    /\ RespondedHeuristic
    /\ resp.body.tags = <<"sabusuku", "douga", "kaiyaku", "teigaku", "getsugaku", "teiki",
                          "eizou", "VOD", "haishin", "kyanseru">>


\* C21: every tag result the handler returns has a confidence in the closed
\* interval [0, 1] (0..100 in hundredths), a confidence that the model
\* supplied included.
C21_ConfidenceInUnitInterval ==
    RespondedTagResult => resp.body.confidence \in 0..100


(***************************************************************************)
(* Two concurrent calls of the handler, under SpecPair.                    *)
(***************************************************************************)
\* Both calls are done.
BothDone == pc = "done" /\ other.pc = "done"

\* C22: calls of the handler are independent and stateless: in every
\* interleaving of two calls the result of a call depends on its own draft,
\* flags, configuration and the answers it received alone, so two calls that
\* agree on these agree on the result; and no call changes the lookup tables,
\* whose only state that a use could change is the lastIndex of their
\* expression objects.
C22_CallsIndependent ==
    /\ reLast = FreshRegExps
    /\ (BothDone /\ req = other.req /\ answers = other.answers) => resp = other.resp

\* Two unforced calls with the draft Netflix kaiyaku, interleaved, each got a
\* failure from the SDK and the same answer from REST, and both are done with
\* the same result.
C22_Witness ==
    /\ BothDone
    /\ req = other.req
    /\ req.body.title = <<"Netflix", "kaiyaku">>
    /\ ~req.force
    /\ Len(answers) = 2
    /\ answers = other.answers
    /\ RespondedTagResult
    /\ resp = other.resp


\* The call has ended with a model result or a heuristic result, after at
\* most two remote attempts for each candidate, six in all.
EndedWithResult ==
    /\ pc = "done"
    /\ RespondedTagResult
    /\ Len(attempts) <= 2 * Len(models)
    /\ Len(attempts) <= 6

\* C23: provided that every remote call returns or fails in the end, every
\* call with a draft that passes the input validation ends with a model
\* result or a heuristic fallback result, after at most two remote attempts
\* for each candidate model and at most six in all.
C23_Terminates == ValidDraft ~> EndedWithResult


\* The summary a model answer supplies, when it supplies one that is not
\* blank, and the title of the draft otherwise.
SuppliedSummaryOrTitle(text) ==
    IF /\ ~ParseModelText(text).null
       /\ Has(ParseModelText(text).obj, "summary")
       /\ TrimLen(ParseModelText(text).obj.summary) > 0
    THEN ParseModelText(text).obj.summary
    ELSE req.body.title

\* C24: in every tag result the handler returns, on the model paths and on
\* every heuristic path (force, no-key, bad-key, fallback, error), summary is
\* the summary the model supplied when it supplied one that is not blank, and
\* the title of the draft otherwise.
C24_SummaryModelOrTitle ==
    [][ /\ \A ans \in SdkAnswers :
             (ans.kind = "text" /\ SdkSettle(ans) /\ resp'.kind = "response")
                 => resp'.body.summary = SuppliedSummaryOrTitle(SdkText(ans.text))
        /\ \A ans \in RestAnswers :
             (RestAnswerHasText(ans) /\ RestSettle(ans) /\ resp'.kind = "response")
                 => resp'.body.summary = SuppliedSummaryOrTitle(RestText(ans.j))
        /\ RespondedHeuristic' => resp'.body.summary = req.body.title
      ]_vars


\* The confidence of a result made from a model answer: the number the model
\* supplied, or else 0.7 for a model success and 0.6 for a result whose tags
\* come from the enrichment alone.
ExpectedConfidence(text, fallback) ==
    IF ~ParseModelText(text).null /\ Has(ParseModelText(text).obj, "confidence")
    THEN ParseModelText(text).obj.confidence
    ELSE IF fallback THEN 60 ELSE 70

\* C25: confidence is the model's own number whenever the model supplied one;
\* otherwise it is 0.7 when the result comes from a model success and 0.6 on
\* every heuristic path, so that a result with fallback=true never carries
\* the default 0.7.
C25_ConfidenceDefaults ==
    [][ /\ \A ans \in SdkAnswers :
             (ans.kind = "text" /\ SdkSettle(ans) /\ resp'.kind = "response")
                 => resp'.body.confidence
                        = ExpectedConfidence(SdkText(ans.text), resp'.body.fallback)
        /\ \A ans \in RestAnswers :
             (RestAnswerHasText(ans) /\ RestSettle(ans) /\ resp'.kind = "response")
                 => resp'.body.confidence
                        = ExpectedConfidence(RestText(ans.j), resp'.body.fallback)
        /\ RespondedHeuristic' => resp'.body.confidence = 60
      ]_vars


(***************************************************************************)
(* The order of the tags of ensureMinTags, under SpecEnrich.               *)
(***************************************************************************)
\* s is the beginning of t.
IsPrefix(s, t) == Len(s) <= Len(t) /\ \A i \in 1..Len(s) : s[i] = t[i]

\* The non-empty members of a list, each at its first occurrence, from
\* position i on.
RECURSIVE DistinctInOrder(_, _)
DistinctInOrder(s, i) ==
    IF i > Len(s) THEN <<>>
    ELSE (IF s[i] # "" /\ (\A j \in 1..(i - 1) : s[j] # s[i]) THEN <<s[i]>> ELSE <<>>)
         \o DistinctInOrder(s, i + 1)

\* The set after each step of ensureMinTags(seed, ctx): the seed, the brand,
\* keyword and geo scans, the URL, the synonyms, the loose keywords, the fill.
StepSets(seed, ctx) ==
    LET s1 == DistinctInOrder(seed, 1)
        s2 == BrandScan(ctx.base, s1)
        s3 == KeywordScan(ctx.base, s2)
        s4 == GeoScan(ctx.base, s3)
        s5 == addFromUrl(ctx.url, s4)
        s6 == SynExpand(s5, s5, 1)
        s7 == addLooseKeywords(ctx.base, s6)
    IN  <<s1, s2, s3, s4, s5, s6, s7, PadFixed(s7, 1, 6)>>

\* The set after each step, cut to max, is the beginning of the list out, and
\* the set after the last step, cut to max, is out.
OrderKept(steps, out) ==
    /\ \A k \in 1..Len(steps) : IsPrefix(Slice(steps[k], 10), out)
    /\ out = Slice(steps[Len(steps)], 10)

\* C26: the list ensureMinTags returns keeps insertion order with the seed
\* first: it begins with the distinct non-empty seed tags in their order (the
\* first max of them), then come the tags of the brand, keyword, geo, URL,
\* synonym, loose-keyword and fill steps in that order; what a step has put
\* into the list is neither moved nor dropped by a later step, so the set
\* after each step, cut to max, is the beginning of the list returned.
C26_SeedFirstInsertionOrder ==
    (enOut # NotCalled /\ ~enOut.threw) => OrderKept(StepSets(enSeed, enCtx), enOut.v)

\* A seed with a repeated tag and a tag that the brand and keyword scans find
\* again: the seed tags are first, in their order, then the tags of the scans.
C26_Witness ==
    /\ enSeed = <<"eiga", "eiga", "douga", "eiga">>
    /\ enCtx = [base |-> <<"netflix", "kaiyaku">>, url |-> Undefined]
    /\ enOut = Returned(<<"eiga", "douga", "sabusuku", "kaiyaku", "eizou", "VOD", "haishin",
                          "teigaku", "getsugaku", "teiki">>)


\* C27: no tag of a list that ensureMinTags returns is the empty string, for
\* every seed, text and URL, a URL that parses to an empty hostname (mailto:,
\* file:) included.
C27_NoEmptyTag ==
    (enOut # NotCalled /\ ~enOut.threw) => "" \notin RangeOf(enOut.v)


\* C28: every tag result with fallback=true, except the forced heuristic one
\* (model "heuristic:force"), carries an error field that is not empty and
\* says why no tags of a model were used.
C28_FallbackCarriesError ==
    (RespondedTagResult /\ resp.body.fallback /\ resp.body.model # "heuristic:force")
        => (Has(resp.body, "error") /\ resp.body.error # "")


\* The fields of a document that an update sets from its patch and from its
\* tagging result.
EditedFields(doc) ==
    Pick(doc, {"title", "type", "url", "username", "note", "tags", "aiSummary",
               "aiConfidence", "aiModel"})

\* The answers of the network on which requestAiTags returns.
OkNets == PageNets \ ErrorNets

\* C29: when two updates of the same item are in flight together, each
\* awaiting its own tagging call, the record stored after both equals, in all
\* of title, type, url, username, note, tags, aiSummary, aiConfidence and
\* aiModel, what one of the two wrote, the one that wrote last, and is never
\* a mix of both by fields; neither changes createdAt.  That is, every write
\* of an update sets all these fields from that update alone, whatever other
\* update is in flight, and leaves createdAt as it is.
C29_LastUpdateWinsWhole ==
    [][ \A i \in 1..Len(pending), net \in OkNets :
            (pending[i].kind = "update" /\ TagSettle(i, net))
                => /\ EditedFields(store'[pending[i].id])
                          = EditedFields(RetaggedDoc(pending[i].d, requestAiTags(net).v))
                   /\ Pick(store'[pending[i].id], {"createdAt"})
                          = Pick(store[pending[i].id], {"createdAt"})
                   /\ Has(store'[pending[i].id], "createdAt")
      ]_vars

\* Two updates of item 1 were in flight together and both have written, the
\* second without a summary: the record has the fields of the second alone.
C29_Witness ==
    /\ pending = <<>>
    /\ writes = << [kind |-> "update", id |-> 1, concurrent |-> TRUE],
                   [kind |-> "update", id |-> 1, concurrent |-> FALSE] >>
    /\ store[1].title = <<"abc">>
    /\ store[1].type = "account"
    /\ store[1].tags = <<"eiga", "douga">>
    /\ ~Has(store[1], "aiSummary")
    /\ store[1].createdAt = "time of addDoc"
    /\ store[1].lastTaggedAt = "time of updateDoc"


\* The AI fields of a document that are not null.
AiFieldsOf(doc) == Pick(doc, {"aiSummary", "aiConfidence", "aiModel"})

\* C30: an update with AI re-tagging off makes no tagging call, writes the
\* manually edited tags (at most 12) and sets aiSummary, aiConfidence, aiModel
\* and lastTaggedAt of the item to null; an update with re-tagging on writes
\* nothing before its tagging call returns and then writes the tags, summary,
\* confidence and model of its own tagging result, never the edited tags.
C30_RetagSwitch ==
    [][ /\ \A id \in 1..Len(store), patch \in {p \in Patches : ~PageTooShort(p)} :
             UpdateStart(id, patch)
                 => IF patch.retagWithAI
                    THEN store' = store /\ Len(pending') = Len(pending) + 1
                    ELSE /\ pending' = pending
                         /\ store'[id].tags = Slice(patch.tags, 12)
                         /\ Len(store'[id].tags) <= 12
                         /\ AiFieldsOf(store'[id]) = <<>>
                         /\ store'[id].lastTaggedAt = Null
        /\ \A i \in 1..Len(pending), net \in OkNets :
             (pending[i].kind = "update" /\ TagSettle(i, net))
                 => /\ store'[pending[i].id].tags = Slice(requestAiTags(net).v.tags, 12)
                    /\ AiFieldsOf(store'[pending[i].id]) = AiFields(requestAiTags(net).v)
                    /\ store'[pending[i].id].lastTaggedAt # Null
      ]_vars

\* Item 1, saved with the tags and AI fields of a tagging result, was then
\* edited by hand with re-tagging off: it has the edited tag and no AI field.
C30_Witness ==
    /\ pending = <<>>
    /\ writes = << [kind |-> "save", id |-> 1, concurrent |-> FALSE],
                   [kind |-> "update", id |-> 1, concurrent |-> FALSE] >>
    /\ store[1].tags = <<"eiga">>
    /\ AiFieldsOf(store[1]) = <<>>
    /\ store[1].lastTaggedAt = Null
    /\ store[1].createdAt = "time of addDoc"

====
